---------------------------- MODULE Spec2Model ----------------------------
(***************************************************************************)
(* A model of the hook utilities of the repository:                        *)
(*   - HookRegistry      (hooks/python-hooks/decorator_hooks.py)           *)
(*   - AsyncPipeline     (hooks/python-hooks/async_hooks.py)               *)
(*   - AsyncHookContext  (hooks/python-hooks/async_hooks.py)               *)
(*   - AsyncHookRegistry (hooks/python-hooks/async_hooks.py)               *)
(* Each component has its own variables, its own actions and its own       *)
(* specification (SpecRegistry, SpecPipeline, SpecScope, SpecTrigger);     *)
(* Spec is their composition.                                              *)
(***************************************************************************)
EXTENDS Integers, Sequences, FiniteSets, TLC

VARIABLES
    \* HookRegistry
    hooks,          \* self._hooks: event name -> list of HookMetadata
    global_hooks,   \* self._global_hooks: list of HookMetadata
    next_seq,       \* number of register calls so far (registration order)
    trig,           \* what the last trigger call did and returned
    \* AsyncPipeline
    stages,         \* self._stages: list of stage callables
    error_handlers, \* self._error_handlers: stage index (from 0) -> handler
    proc,           \* what the last process call did and returned
    stream,         \* the process_stream generator in use, and its consumer
    \* AsyncHookContext
    setup_hooks,    \* self._setup_hooks: list of setup hooks
    teardown_hooks, \* self._teardown_hooks: list of teardown hooks
    resources,      \* self._resources: key -> value
    scope,          \* the "async with" statement in progress or just ended
    \* AsyncHookRegistry
    async_hooks,    \* self._hooks, self._pre_hooks, self._post_hooks:
                    \* group -> (event name -> list of hooks)
    call,           \* the trigger call in progress or just ended
    \* AgentHook / SimpleAgent
    agent,          \* an agent: its processor and its three hook lists
    exec,           \* what the last execute call on it did and returned
    \* AgentOrchestrator
    agents,         \* self._agents: agent id -> agent
    workflows,      \* self._workflows: workflow name -> list of agent ids
    orchestrator_hooks, \* self._global_hooks: list of hooks
    last_registered, \* agent id -> the agent last given to register_agent
    run             \* the execute_workflow call in progress or just ended

registryVars == <<hooks, global_hooks, next_seq, trig>>
pipelineVars == <<stages, error_handlers, proc, stream>>

scopeVars == <<setup_hooks, teardown_hooks, resources, scope>>

triggerVars == <<async_hooks, call>>

agentVars == <<agent, exec>>

orchestratorVars ==
    <<agents, workflows, orchestrator_hooks, last_registered, run>>

vars == <<registryVars, pipelineVars, scopeVars, triggerVars, agentVars,
          orchestratorVars>>

\* What the operations of one component leave alone: the other components.
notRegistry ==
    <<pipelineVars, scopeVars, triggerVars, agentVars, orchestratorVars>>
notPipeline ==
    <<registryVars, scopeVars, triggerVars, agentVars, orchestratorVars>>
notScope ==
    <<registryVars, pipelineVars, triggerVars, agentVars, orchestratorVars>>
notTrigger ==
    <<registryVars, pipelineVars, scopeVars, agentVars, orchestratorVars>>
notAgent ==
    <<registryVars, pipelineVars, scopeVars, triggerVars, orchestratorVars>>
notOrchestrator ==
    <<registryVars, pipelineVars, scopeVars, triggerVars, agentVars>>

\* ------------------------------------------------------------------------
\* Bounds of the model
\* ------------------------------------------------------------------------
MaxHooks == 3       \* register calls on the HookRegistry
MaxStages == 3      \* add_stage calls on the AsyncPipeline
MaxSetup == 2       \* setup hooks of the AsyncHookContext
MaxTeardown == 3    \* teardown hooks of the AsyncHookContext
MaxUses == 2        \* times the AsyncHookContext is entered
MaxAsyncHooks == 4  \* register calls on the AsyncHookRegistry
MaxAgentHooks == 3  \* hooks of one agent, its three lists together
MaxGlobalHooks == 2 \* global hooks of the AgentOrchestrator

\* ------------------------------------------------------------------------
\* HookPriority (decorator_hooks.py, class HookPriority)
\* ------------------------------------------------------------------------
LOWEST == 0
LOW == 1
NORMAL == 2
HIGH == 3
HIGHEST == 4

HookPriority == {LOWEST, LOW, NORMAL, HIGH, HIGHEST}

\* The priorities the register calls of the model draw from.
Priorities == {LOW, HIGH}

\* Event names; None (no event) registers a global hook.  Hooks are
\* registered for both events; the model triggers "e" (the two events are
\* interchangeable), so the hooks of "other" are those of a different event.
None == "None"
Events == {"e", "other"}
TriggerEvents == {"e"}

\* The model registers every hook with enabled=True, the default;
\* disable_hook and enable_hook change the flag afterwards.
RegisterEnabled == {TRUE}

\* The hook callables: "a" and "b" return normally, "boom" raises an
\* Exception.  register is called without a name, so the hook's name is
\* func.__name__.
Funcs == {"a", "b", "boom"}
FuncRaises(func) == func = "boom"
\* func(*args): the value a hook returns when it returns normally.
FuncCall(func, arg) == <<func, arg>>
Args == {5}

\* ------------------------------------------------------------------------
\* HookRegistry.register
\* ------------------------------------------------------------------------
HookMetadata(func, priority, name, enabled, seq) ==
    [func |-> func, priority |-> priority, name |-> name,
     enabled |-> enabled, seq |-> seq]

\* A sort that puts a record before the records of equal priority already
\* in the list (ties come out in reverse registration order).
RECURSIVE InsertByPriorityTiesFirst(_, _)
InsertByPriorityTiesFirst(sorted, h) ==
    IF sorted = <<>> THEN <<h>>
    ELSE IF Head(sorted).priority > h.priority
         THEN <<Head(sorted)>> \o InsertByPriorityTiesFirst(Tail(sorted), h)
         ELSE <<h>> \o sorted

\* One insertion of the stable descending sort: h goes after every record
\* whose priority is greater than or equal to its own.
RECURSIVE InsertByPriority(_, _)
InsertByPriority(sorted, h) ==
    IF sorted = <<>> THEN <<h>>
    ELSE IF Head(sorted).priority >= h.priority
         THEN <<Head(sorted)>> \o InsertByPriority(Tail(sorted), h)
         ELSE <<h>> \o sorted

\* list.sort(key=lambda h: h.priority.value, reverse=True): Python's sort
\* is stable and reverse=True keeps the original order of equal keys.
RECURSIVE SortFrom(_, _)
SortFrom(list, acc) ==
    IF list = <<>> THEN acc
    ELSE SortFrom(Tail(list), InsertByPriority(acc, Head(list)))

SortByPriority(list) == SortFrom(list, <<>>)

NoTrigger ==
    [done |-> FALSE, event |-> None, arg |-> 0, calls |-> <<>>,
     results |-> <<>>, logged |-> <<>>, escaped |-> FALSE]

register(event, priority, func, enabled) ==
    /\ next_seq < MaxHooks
    /\ LET metadata == HookMetadata(func, priority, func, enabled, next_seq + 1)
       IN IF event = None
          THEN /\ global_hooks' = SortByPriority(Append(global_hooks, metadata))
               /\ hooks' = hooks
          ELSE /\ hooks' =
                    [ev \in DOMAIN hooks \cup {event} |->
                        IF ev = event
                        THEN SortByPriority(Append(
                                 IF event \in DOMAIN hooks THEN hooks[event]
                                 ELSE <<>>, metadata))
                        ELSE hooks[ev]]
               /\ global_hooks' = global_hooks
    /\ next_seq' = next_seq + 1
    /\ trig' = NoTrigger

\* ------------------------------------------------------------------------
\* HookRegistry.trigger
\* ------------------------------------------------------------------------
\* A loop iteration without the try/except: the hook's exception leaves
\* trigger.
TryHookNoCatch(acc, hook, arg) ==
    IF ~hook.enabled THEN acc
    ELSE IF FuncRaises(hook.func)
         THEN [acc EXCEPT !.calls = Append(@, hook.seq), !.escaped = TRUE]
         ELSE [acc EXCEPT !.calls = Append(@, hook.seq),
                          !.results = Append(@, FuncCall(hook.func, arg))]

\* The body of one loop iteration: if hook.enabled, try hook.func(*args),
\* append the result; except Exception: logger.error(...).
\* acc.calls is the list of the hooks invoked (by registration number).
TryHook(acc, hook, arg) ==
    IF ~hook.enabled THEN acc
    ELSE IF FuncRaises(hook.func)
         THEN [acc EXCEPT !.calls = Append(@, hook.seq),
                          !.logged = Append(@, hook.name)]
         ELSE [acc EXCEPT !.calls = Append(@, hook.seq),
                          !.results = Append(@, FuncCall(hook.func, arg))]

\* for hook in hook_list: ...   (an escaped exception ends the loop)
RECURSIVE RunHookList(_, _, _)
RunHookList(list, arg, acc) ==
    IF list = <<>> \/ acc.escaped THEN acc
    ELSE RunHookList(Tail(list), arg, TryHook(acc, Head(list), arg))

\* A trigger that runs the hooks of the event before the global hooks.
TriggerResultEventFirst(event, arg) ==
    LET start == [NoTrigger EXCEPT !.done = TRUE, !.event = event, !.arg = arg]
        afterEvent == IF event \in DOMAIN hooks
                      THEN RunHookList(hooks[event], arg, start)
                      ELSE start
    IN  RunHookList(global_hooks, arg, afterEvent)

\* "Execute global hooks first", then "Execute event-specific hooks".
TriggerResult(event, arg) ==
    LET start == [NoTrigger EXCEPT !.done = TRUE, !.event = event, !.arg = arg]
        afterGlobal == RunHookList(global_hooks, arg, start)
    IN  IF event \in DOMAIN hooks
        THEN RunHookList(hooks[event], arg, afterGlobal)
        ELSE afterGlobal

trigger(event, arg) ==
    /\ trig' = TriggerResult(event, arg)
    /\ UNCHANGED <<hooks, global_hooks, next_seq>>

\* ------------------------------------------------------------------------
\* HookRegistry.enable_hook / disable_hook
\* ------------------------------------------------------------------------
\* A scan that stops at the first record with the name.
SetEnabledFirstMatch(list, name, value) ==
    [i \in 1..Len(list) |->
        IF list[i].name = name
           /\ \A j \in 1..(i - 1) : list[j].name # name
        THEN [list[i] EXCEPT !.enabled = value]
        ELSE list[i]]

\* "for hook in hook_list: if hook.name == name: hook.enabled = value".
SetEnabled(list, name, value) ==
    [i \in 1..Len(list) |->
        IF list[i].name = name THEN [list[i] EXCEPT !.enabled = value]
        ELSE list[i]]

enable_hook(name) ==
    /\ global_hooks' = SetEnabled(global_hooks, name, TRUE)
    /\ hooks' = [ev \in DOMAIN hooks |-> SetEnabled(hooks[ev], name, TRUE)]
    /\ trig' = NoTrigger
    /\ UNCHANGED next_seq

disable_hook(name) ==
    /\ global_hooks' = SetEnabled(global_hooks, name, FALSE)
    /\ hooks' = [ev \in DOMAIN hooks |-> SetEnabled(hooks[ev], name, FALSE)]
    /\ trig' = NoTrigger
    /\ UNCHANGED next_seq

\* ------------------------------------------------------------------------
\* AsyncPipeline: the callables given to add_stage
\* ------------------------------------------------------------------------
\* Stages: "inc" is a plain function (x + 1), "adbl" an async def (x * 2),
\* "boom" a plain function that raises ValueError, "aboom" an async def
\* that raises RuntimeError.
StageFuncs == {"inc", "adbl", "boom", "aboom"}
\* Error handlers, called with (data, error): "h_fallback" is an async def
\* returning the fixed value 10, "h_keep" an async def returning the data it was
\* given, "h_raise" an async def that raises, "h_sync" a plain function
\* returning the fixed value.
Handlers == {"h_fallback", "h_keep", "h_raise", "h_sync"}
Data == {1, 2}
NoError == "none"

\* asyncio.iscoroutinefunction(f): f was defined with async def.
IsCoroutineFunction(f) == f \in {"adbl", "aboom", "h_fallback", "h_keep", "h_raise"}

Value(v) == [kind |-> "value", val |-> v, err |-> NoError]
Raise(e) == [kind |-> "raise", val |-> 0, err |-> e]
Coroutine(f, a) == [kind |-> "coro", val |-> <<f, a>>, err |-> NoError]

\* What the body of f does with its argument(s).
Body(f, a) ==
    CASE f = "inc" -> Value(a + 1)
      [] f = "adbl" -> Value(a * 2)
      [] f = "boom" -> Raise("ValueError")
      [] f = "aboom" -> Raise("RuntimeError")
      [] f = "h_fallback" -> Value(10)
      [] f = "h_sync" -> Value(10)
      [] f = "h_keep" -> Value(a[1])
      [] f = "h_raise" -> Raise("HandlerError")

\* f(a): a plain function runs its body; an async def returns a coroutine.
Call(f, a) == IF IsCoroutineFunction(f) THEN Coroutine(f, a) ELSE Body(f, a)

\* await x: x is the outcome of evaluating the awaited expression.  An
\* expression that raised never reaches the await; a coroutine is run to
\* completion; anything else is not awaitable (TypeError).
Await(x) ==
    CASE x.kind = "raise" -> x
      [] x.kind = "coro" -> Body(x.val[1], x.val[2])
      [] OTHER -> Raise("TypeError")

\* ------------------------------------------------------------------------
\* AsyncPipeline.add_stage
\* ------------------------------------------------------------------------
NoProcess ==
    [done |-> FALSE, data |-> 0, calls |-> <<>>, handled |-> <<>>,
     result |-> 0, raised |-> NoError]

\* No process_stream generator: source is what the data stream gives
\* before it ends, pulled the number of items taken from it, outputs the
\* values handed to the consumer, log the order of what happened.
NoStream ==
    [phase |-> "none", source |-> <<>>, pulled |-> 0, outputs |-> <<>>,
     log |-> <<>>, raised |-> NoError]

add_stage(stage, error_handler) ==
    /\ Len(stages) < MaxStages
    /\ LET index == Len(stages)
       IN  /\ stages' = Append(stages, stage)
           /\ error_handlers' =
                 IF error_handler # None
                 THEN [i \in DOMAIN error_handlers \cup {index} |->
                          IF i = index THEN error_handler
                          ELSE error_handlers[i]]
                 ELSE error_handlers
    /\ proc' = NoProcess
    /\ stream' = NoStream

\* ------------------------------------------------------------------------
\* AsyncPipeline.process
\* ------------------------------------------------------------------------
\* A lookup that takes the handler of the following stage.
HandlerOfNextStage(i) ==
    IF i + 1 \in DOMAIN error_handlers THEN error_handlers[i + 1] ELSE None

\* "if i in self._error_handlers": the handler of stage i, or None.
HandlerOf(i) ==
    IF i \in DOMAIN error_handlers THEN error_handlers[i] ELSE None

\* A stage call that is given the data process was called with.
StageOutcomeOfInitialData(stage, current_data, data) ==
    IF IsCoroutineFunction(stage)
    THEN Await(Call(stage, data))
    ELSE Call(stage, data)

\* if asyncio.iscoroutinefunction(stage): await stage(current_data)
\* else: stage(current_data)
StageOutcome(stage, current_data, data) ==
    IF IsCoroutineFunction(stage)
    THEN Await(Call(stage, current_data))
    ELSE Call(stage, current_data)

\* One iteration of the loop of process for stage i (from 0).  acc.result
\* is current_data; acc.calls lists the stage calls, acc.handled the
\* handler calls, each with its arguments and its outcome.
ProcessStage(acc, i) ==
    LET stage == stages[i + 1]
        current_data == acc.result
        out == StageOutcome(stage, current_data, acc.data)
        called == [acc EXCEPT !.calls =
                     Append(@, [index |-> i, input |-> current_data, out |-> out])]
    IN  IF out.kind = "value"
        THEN [called EXCEPT !.result = out.val]
        ELSE IF HandlerOf(i) # None
             THEN LET hout == Await(Call(HandlerOf(i), <<current_data, out.err>>))
                      handled == [called EXCEPT !.handled =
                                    Append(@, [index |-> i, data |-> current_data,
                                               error |-> out.err, out |-> hout])]
                  IN  IF hout.kind = "value"
                      THEN [handled EXCEPT !.result = hout.val]
                      ELSE [handled EXCEPT !.raised = hout.err]
             ELSE [called EXCEPT !.raised = out.err]

\* for i, stage in enumerate(self._stages): ...  (a raise ends the loop)
RECURSIVE ProcessFrom(_, _)
ProcessFrom(i, acc) ==
    IF i >= Len(stages) \/ acc.raised # NoError THEN acc
    ELSE ProcessFrom(i + 1, ProcessStage(acc, i))

process(data) ==
    /\ proc' = ProcessFrom(0, [NoProcess EXCEPT !.done = TRUE, !.data = data,
                                                !.result = data])
    /\ UNCHANGED <<stages, error_handlers, stream>>

\* ------------------------------------------------------------------------
\* AsyncPipeline.process_stream
\* ------------------------------------------------------------------------
\* The data streams given to process_stream, as the items they give before
\* they end.
Streams == {<<>>, <<1>>, <<2, 1>>}

\* What one event of the generator's log records.
StreamEvent(ev, k, value) == [ev |-> ev, k |-> k, value |-> value]

\* Calling process_stream makes the async generator; its body does not
\* start before the consumer asks for the first output.
process_stream(data_stream) ==
    /\ stream' = [NoStream EXCEPT !.phase = "suspended",
                                  !.source = data_stream]
    /\ UNCHANGED <<stages, error_handlers, proc>>

\* An iteration that takes the newest item of the data stream first.
NextItemNewestFirst(st) == st.source[Len(st.source) - st.pulled]

\* "async for item in data_stream": the next item the data stream gives.
NextItem(st) == st.source[st.pulled + 1]

\* "await self.process(item)": the outcome of process on one item.
ProcessItem(item) ==
    ProcessFrom(0, [NoProcess EXCEPT !.done = TRUE, !.data = item,
                                     !.result = item])

\* The consumer asks the generator for its next output (__anext__): the
\* generator resumes after its last yield, takes the next item of the data
\* stream, awaits process on it and yields the result, where it is
\* suspended again.  When the data stream has ended the loop and the
\* generator end; when process raises, the error leaves the generator,
\* which is then closed.
anext ==
    /\ stream.phase = "suspended"
    /\ LET k == stream.pulled + 1
           asked == [stream EXCEPT
                       !.log = Append(@, StreamEvent("request", k, 0))]
       IN  IF stream.pulled >= Len(stream.source)
           THEN stream' = [asked EXCEPT !.phase = "exhausted"]
           ELSE LET item == NextItem(stream)
                    done == ProcessItem(item)
                    pulled == [asked EXCEPT
                                 !.pulled = k,
                                 !.log = Append(@, StreamEvent("pull", k,
                                                               item))]
                IN  IF done.raised # NoError
                    THEN stream' = [pulled EXCEPT !.phase = "failed",
                                                  !.raised = done.raised]
                    ELSE stream' =
                           [pulled EXCEPT
                              !.outputs = Append(@, done.result),
                              !.log = Append(@, StreamEvent("yield", k,
                                                            done.result))]
    /\ UNCHANGED <<stages, error_handlers, proc>>

\* ------------------------------------------------------------------------
\* AsyncHookContext
\* ------------------------------------------------------------------------
\* Setup hooks: "s_db" returns {"db": 1}, "s_both" returns {"db": 2,
\* "cache": 2}, "s_none" returns None, "s_boom" raises.
SetupFuncs == {"s_db", "s_both", "s_none", "s_boom"}
\* Teardown hooks: "t_ok" returns, "t_boom" raises.
TeardownFuncs == {"t_ok", "t_boom"}

Err(type, at) == [type |-> type, at |-> at]
NoErr == Err("none", 0)

EmptyDict == [k \in {} |-> 0]

\* What "await hook()" gives for a setup hook that returns: a dict, or a
\* value that is no dict (None).
SetupReturn(f) ==
    CASE f = "s_db" -> [is_dict |-> TRUE, dict |-> [k \in {"db"} |-> 1]]
      [] f = "s_both" -> [is_dict |-> TRUE, dict |-> [k \in {"db", "cache"} |-> 2]]
      [] OTHER -> [is_dict |-> FALSE, dict |-> EmptyDict]

\* dict.update: the entries of other replace or extend those of d.
Update(d, other) ==
    [k \in DOMAIN d \cup DOMAIN other |->
        IF k \in DOMAIN other THEN other[k] ELSE d[k]]

NoScope ==
    [phase |-> "idle", log |-> <<>>, body |-> "none", exit_ran |-> FALSE,
     error |-> NoErr, uses |-> 0]

\* setup(hook) / teardown(hook): append to the list.  A call made after a
\* scope has ended starts from the idle context again.
Registered ==
    IF scope.phase = "closed" THEN [NoScope EXCEPT !.uses = scope.uses]
    ELSE scope

setup(hook) ==
    /\ scope.phase \in {"idle", "active", "closed"}
    /\ Len(setup_hooks) < MaxSetup
    /\ setup_hooks' = Append(setup_hooks, hook)
    /\ scope' = Registered
    /\ UNCHANGED <<teardown_hooks, resources>>

teardown(hook) ==
    /\ scope.phase \in {"idle", "active", "closed"}
    /\ Len(teardown_hooks) < MaxTeardown
    /\ teardown_hooks' = Append(teardown_hooks, hook)
    /\ scope' = Registered
    /\ UNCHANGED <<setup_hooks, resources>>

\* A loop that goes on to the next setup hook after one has raised.
RECURSIVE RunSetupIsolated(_, _)
RunSetupIsolated(i, acc) ==
    IF i > Len(setup_hooks) THEN acc
    ELSE LET hook == setup_hooks[i]
             result == SetupReturn(hook)
             res == IF result.is_dict THEN Update(acc.res, result.dict)
                    ELSE acc.res
         IN  RunSetupIsolated(i + 1,
                [acc EXCEPT !.log = Append(@, [ev |-> "setup", hook |-> i,
                                               res |-> res]),
                            !.res = res,
                            !.error = IF hook = "s_boom" /\ @ = NoErr
                                      THEN Err("SetupError", i) ELSE @])

\* __aenter__: for hook in self._setup_hooks: result = await hook();
\* if isinstance(result, dict): self._resources.update(result).
\* acc.res is self._resources; a hook that raises ends the loop.
RECURSIVE RunSetup(_, _)
RunSetup(i, acc) ==
    IF i > Len(setup_hooks) \/ acc.error # NoErr THEN acc
    ELSE LET hook == setup_hooks[i]
         IN  IF hook = "s_boom"
             THEN RunSetup(i + 1,
                    [acc EXCEPT !.log = Append(@, [ev |-> "setup", hook |-> i,
                                                   res |-> acc.res]),
                                !.error = Err("SetupError", i)])
             ELSE LET result == SetupReturn(hook)
                      res == IF result.is_dict THEN Update(acc.res, result.dict)
                             ELSE acc.res
                  IN  RunSetup(i + 1,
                        [acc EXCEPT !.log = Append(@, [ev |-> "setup", hook |-> i,
                                                       res |-> res]),
                                    !.res = res])

\* "async with ctx:" evaluates __aenter__; if it raises, the body does not
\* run and __aexit__ is not called.
aenter ==
    /\ scope.phase \in {"idle", "closed"}
    /\ scope.uses < MaxUses
    /\ LET done == RunSetup(1, [res |-> resources, log |-> <<>>, error |-> NoErr])
       IN  /\ resources' = done.res
           /\ scope' = [NoScope EXCEPT
                           !.phase = IF done.error = NoErr THEN "active"
                                     ELSE "closed",
                           !.log = done.log,
                           !.error = done.error,
                           !.uses = scope.uses + 1]
    /\ UNCHANGED <<setup_hooks, teardown_hooks>>

\* The body of the async with statement ends, by running to its end or by
\* an exception escaping it.
body_ends(raised) ==
    /\ scope.phase = "active"
    /\ scope' = [scope EXCEPT
                    !.phase = "exiting",
                    !.body = IF raised THEN "raised" ELSE "returned",
                    !.log = Append(@, [ev |-> "body", hook |-> 0,
                                       res |-> resources])]
    /\ UNCHANGED <<setup_hooks, teardown_hooks, resources>>

\* The teardown hooks in registration order.
TeardownOrderForward(n) == [k \in 1..n |-> k]

\* reversed(self._teardown_hooks): the positions of the n hooks, last first.
TeardownOrder(n) == [k \in 1..n |-> n + 1 - k]

\* for hook in reversed(self._teardown_hooks): await hook(self._resources)
\* (a hook that raises ends the loop and __aexit__).
RECURSIVE RunTeardown(_, _, _)
RunTeardown(order, k, acc) ==
    IF k > Len(order) \/ acc.error # NoErr THEN acc
    ELSE LET i == order[k]
             called == [acc EXCEPT !.log = Append(@, [ev |-> "teardown",
                                          hook |-> i, res |-> resources])]
         IN  RunTeardown(order, k + 1,
                IF teardown_hooks[i] = "t_boom"
                THEN [called EXCEPT !.error = Err("TeardownError", i)]
                ELSE called)

\* A __aexit__ that returns True.
ExitSuppressesAlways == TRUE

\* "return False": __aexit__ does not suppress the exception of the body.
ExitSuppresses == FALSE

\* __aexit__, and what the async with statement then reports to its caller:
\* the error __aexit__ raised, else the body's exception unless __aexit__
\* returned true, else success.
aexit ==
    /\ scope.phase = "exiting"
    /\ LET done == RunTeardown(TeardownOrder(Len(teardown_hooks)), 1,
                       [log |-> scope.log, error |-> NoErr])
       IN  scope' = [scope EXCEPT
                       !.phase = "closed",
                       !.exit_ran = TRUE,
                       !.log = done.log,
                       !.error = IF done.error # NoErr THEN done.error
                                 ELSE IF scope.body = "raised" /\ ~ExitSuppresses
                                      THEN Err("BodyError", 0)
                                      ELSE NoErr]
    /\ UNCHANGED <<setup_hooks, teardown_hooks, resources>>

\* ------------------------------------------------------------------------
\* AsyncHookRegistry
\* ------------------------------------------------------------------------
\* The hooks: "ok" is an async def that returns, "fail" an async def that
\* raises an Exception, "sync" a plain function that returns a value.
AsyncFuncs == {"ok", "fail", "sync"}
\* The model registers and triggers one event.
AsyncEvents == {"e"}

\* The hook groups in the order trigger runs them.
GroupsMainFirst == <<"main", "pre", "post">>

\* trigger: "Run pre-hooks", "Run main hooks", "Run post-hooks".
Groups == <<"pre", "main", "post">>

GroupNames == {"pre", "main", "post"}

\* The list of the event in the dict of the group; <<>> when the event is
\* not a key ("if event in self._pre_hooks" fails).
HooksOf(group, event) ==
    IF event \in DOMAIN async_hooks[group] THEN async_hooks[group][event]
    ELSE <<>>

\* The values given for trigger's timeout: None (the default), 0 seconds
\* and a positive number of seconds, written as Python writes them.
Timeouts == {None, "0", "0.1"}

\* "if timeout:" is the truth value of the argument: None and 0 are false.
Truthy(timeout) == timeout \notin {None, "0"}

\* expired records that the time given as timeout has passed while the main
\* group was still running.
NoCall ==
    [phase |-> "idle", event |-> None, concurrent |-> FALSE,
     timeout |-> None, expired |-> FALSE,
     status |-> [g \in GroupNames |-> <<>>],
     results |-> [g \in GroupNames |-> <<>>],
     error |-> NoError]

CallOver == call.phase \in {"idle", "returned", "failed"}

\* register / register_pre / register_post: append to the event's list of
\* the group, creating the list when the event is new.
register_async(group, event, hook) ==
    /\ CallOver
    /\ Len(HooksOf("pre", event)) + Len(HooksOf("main", event))
          + Len(HooksOf("post", event)) < MaxAsyncHooks
    /\ async_hooks' =
          [async_hooks EXCEPT ![group] =
              [ev \in DOMAIN async_hooks[group] \cup {event} |->
                  IF ev = event THEN Append(HooksOf(group, event), hook)
                  ELSE async_hooks[group][ev]]]
    /\ call' = NoCall

\* The value in the result list for hook i of a group: its return value,
\* or the exception it raised (gather's return_exceptions=True).
HookResult(hook, i) ==
    [returned |-> hook # "fail", hook |-> i]

First(S) == CHOOSE x \in S : \A y \in S : x <= y

\* run_hooks, sequential branch: "result = await hook(*args)" for hook i.
\* An async def starts running; a plain function runs to its end and its
\* value cannot be awaited (TypeError).
SeqStart(c, group, i) ==
    LET list == HooksOf(group, c.event)
    IN  IF list[i] = "sync"
        THEN [c EXCEPT !.phase = "failed", !.error = "TypeError",
                       !.status[group] = Append(@, "done")]
        ELSE [c EXCEPT !.phase = group,
                       !.status[group] = Append(@, "running")]

\* run_hooks, concurrent branch: tasks = [hook(*args) for hook in
\* hook_list] calls every hook (a plain function runs to its end, an async
\* def gives a coroutine), then gather wraps the coroutines into tasks in
\* order and raises TypeError at the first value that is not awaitable:
\* the tasks made before it still run, the coroutines after it never do.
GatherStart(c, group) ==
    LET list == HooksOf(group, c.event)
        bad == {i \in 1..Len(list) : list[i] = "sync"}
    IN  IF bad = {}
        THEN [c EXCEPT !.phase = group,
                       !.status[group] = [i \in 1..Len(list) |-> "new"]]
        ELSE [c EXCEPT !.phase = "failed", !.error = "TypeError",
                       !.status[group] =
                          [i \in 1..Len(list) |->
                              IF list[i] = "sync" THEN "done"
                              ELSE IF i < First(bad) THEN "new"
                              ELSE "never"]]

\* The code of trigger from the block of group number gi on, up to the
\* next point where it waits for a hook: a group without a list for the
\* event is skipped, after the last group trigger returns the dict.
RECURSIVE BeginGroup(_, _)
BeginGroup(c, gi) ==
    IF gi > Len(Groups) THEN [c EXCEPT !.phase = "returned"]
    ELSE LET group == Groups[gi]
         IN  IF HooksOf(group, c.event) = <<>>
             THEN BeginGroup(c, gi + 1)
             ELSE IF c.concurrent THEN GatherStart(c, group)
                  ELSE SeqStart(c, group, 1)

GroupIndex(group) == CHOOSE gi \in 1..Len(Groups) : Groups[gi] = group

trigger_async(event, concurrent, timeout) ==
    /\ CallOver
    /\ call' = BeginGroup([NoCall EXCEPT !.event = event,
                                         !.concurrent = concurrent,
                                         !.timeout = timeout], 1)
    /\ UNCHANGED async_hooks

\* A task made by gather runs its first step.
hook_starts(group, i) ==
    /\ call.concurrent
    /\ i \in 1..Len(call.status[group])
    /\ call.status[group][i] = "new"
    /\ call' = [call EXCEPT !.status[group][i] = "running"]
    /\ UNCHANGED async_hooks

Finished(status) == status \in {"done", "failed"}

\* asyncio.gather(*tasks, return_exceptions=True).
ReturnExceptionsOff == FALSE

ReturnExceptions == TRUE

\* run_hooks, concurrent branch, after a task of the group has finished:
\* gather keeps the outcome in the hook's slot and, when every task of the
\* group has finished, run_hooks returns the list in the order of the
\* hooks.  Without return_exceptions the first exception would leave gather
\* at once, the other tasks still running.
GatherEnds(ended, group, outcome) ==
    LET list == HooksOf(group, ended.event)
    IN  IF outcome = "failed" /\ ~ReturnExceptions
        THEN [ended EXCEPT !.phase = "failed", !.error = "HookError"]
        ELSE IF \A j \in 1..Len(list) : Finished(ended.status[group][j])
        THEN BeginGroup(
               [ended EXCEPT !.results[group] =
                   [j \in 1..Len(list) |-> HookResult(list[j], j)]],
               GroupIndex(group) + 1)
        ELSE ended

SeqEndsIsolated(ended, group, i, outcome) ==
    LET list == HooksOf(group, ended.event)
        appended == IF outcome = "failed" THEN ended
                    ELSE [ended EXCEPT !.results[group] =
                             Append(@, HookResult(list[i], i))]
    IN  IF i < Len(list) THEN SeqStart(appended, group, i + 1)
        ELSE BeginGroup(appended, GroupIndex(group) + 1)

\* run_hooks, sequential branch, after hook i has finished: "result = await
\* hook(*args)" has no try around it, so the hook's exception leaves
\* run_hooks and trigger; otherwise results.append(result) and the loop
\* goes on to the next hook, or run_hooks returns after the last one.
SeqEnds(ended, group, i, outcome) ==
    LET list == HooksOf(group, ended.event)
    IN  IF outcome = "failed"
        THEN [ended EXCEPT !.phase = "failed", !.error = "HookError"]
        ELSE LET appended ==
                   [ended EXCEPT !.results[group] =
                       Append(@, HookResult(list[i], i))]
             IN  IF i < Len(list) THEN SeqStart(appended, group, i + 1)
                 ELSE BeginGroup(appended, GroupIndex(group) + 1)

\* A running hook returns or raises.  A task that outlives the call that
\* made it (phase is no longer its group) only records its outcome.
hook_ends(group, i) ==
    /\ i \in 1..Len(call.status[group])
    /\ call.status[group][i] = "running"
    /\ LET list == HooksOf(group, call.event)
           outcome == IF list[i] = "fail" THEN "failed" ELSE "done"
           ended == [call EXCEPT !.status[group][i] = outcome]
       IN  call' =
             IF call.phase # group THEN ended
             ELSE IF call.concurrent THEN GatherEnds(ended, group, outcome)
             ELSE SeqEnds(ended, group, i, outcome)
    /\ UNCHANGED async_hooks

\* The time given as timeout passes while the main group is running.  With
\* a true timeout the group runs under asyncio.wait_for(run_hooks(
\* self._hooks[event]), timeout=timeout): the hooks that have not finished
\* are cancelled and trigger raises TimeoutError.  With a false one ("if
\* timeout:" fails for 0) the group is awaited directly and nothing
\* happens when the time has passed.
timeout_expires ==
    /\ call.phase = "main"
    /\ call.timeout # None
    /\ ~call.expired
    /\ call' =
          IF Truthy(call.timeout)
          THEN [call EXCEPT
                   !.expired = TRUE,
                   !.phase = "failed", !.error = "TimeoutError",
                   !.status["main"] =
                      [i \in 1..Len(@) |->
                          IF Finished(@[i]) THEN @[i] ELSE "cancelled"]]
          ELSE [call EXCEPT !.expired = TRUE]
    /\ UNCHANGED async_hooks

\* ------------------------------------------------------------------------
\* AgentMessage, AgentHook, SimpleAgent (agent_orchestration.py)
\* ------------------------------------------------------------------------
\* @dataclass AgentMessage; __post_init__ turns previous_messages=None into
\* the empty list.
AgentMessage(role, content, metadata, previous_messages) ==
    [role |-> role, content |-> content, metadata |-> metadata,
     previous_messages |-> previous_messages]

\* Stands where there is no message.
NoMessage == AgentMessage("none", <<>>, "none", <<>>)

\* The message a workflow starts from.
InitialMessage == AgentMessage("coordinator", <<"task">>, "md", <<>>)

\* The messages given to AgentHook.execute: a first message, and a message
\* that already has a history.
Messages ==
    {InitialMessage,
     AgentMessage("planner", <<"task", "A">>, "md", <<InitialMessage>>)}

AgentIds == {"A", "B", "C"}

\* The processors of a SimpleAgent: "ok" is a plain function that returns
\* new content, "aok" an async def that does, "boom" raises an Exception.
Processors == {"ok", "aok", "boom"}

\* The callbacks given to before_execution, after_execution and on_error:
\* "h" is a plain function, "ah" an async def, "hboom" raises an Exception.
AgentHookFuncs == {"h", "ah", "hboom"}

\* An exception raised inside execute: by the processing step of the agent
\* (index 0) or by hook number index of one of the agent's hook lists.
AgentErr(type, at, index) == [type |-> type, at |-> at, index |-> index]

NoAgentError == AgentErr("none", "none", 0)

\* SimpleAgent.__init__ on top of AgentHook.__init__: the three hook lists
\* start empty.  The role is the agent's own name for itself.
SimpleAgent(agent_id, role, processor) ==
    [agent_id |-> agent_id, role |-> role, processor |-> processor,
     pre_hooks |-> <<>>, post_hooks |-> <<>>, error_hooks |-> <<>>]

\* One entry of the log of an execute call: a hook of a list, or the
\* processing step (kind "process", index 0), with the arguments it got.
Invoked(kind, index, message, result, error) ==
    [kind |-> kind, index |-> index, message |-> message,
     result |-> result, error |-> error]

\* "for hook in self._xxx_hooks: await hook(...) / hook(...)": the hooks of
\* one list are called in order from number i with the same arguments; an
\* exception of a hook ends the loop.
RECURSIVE RunAgentHooks(_, _, _, _, _, _)
RunAgentHooks(kind, list, i, message, result, error) ==
    IF i > Len(list) THEN [log |-> <<>>, raised |-> NoAgentError]
    ELSE LET entry == Invoked(kind, i, message, result, error)
         IN  IF list[i] = "hboom"
             THEN [log |-> <<entry>>, raised |-> AgentErr("HookError", kind, i)]
             ELSE LET rest == RunAgentHooks(kind, list, i + 1,
                                            message, result, error)
                  IN  [log |-> <<entry>> \o rest.log, raised |-> rest.raised]

\* SimpleAgent._process: the processor is called on the content (awaited
\* when it is a coroutine function); the new message has the agent's role,
\* the new content, the metadata of the input and the input's history
\* followed by the input.
SimpleAgent_process(a, message) ==
    IF a.processor = "boom"
    THEN [result |-> NoMessage,
          raised |-> AgentErr("ProcessError", a.agent_id, 0)]
    ELSE [result |-> AgentMessage(a.role,
                                  Append(message.content, a.agent_id),
                                  message.metadata,
                                  Append(message.previous_messages, message)),
          raised |-> NoAgentError]

\* The except block of execute: the error hooks get (message, e), then
\* "raise" re-raises e; an exception of an error hook leaves instead.
ExecuteExcept(a, message, log, e) ==
    LET handled == RunAgentHooks("error", a.error_hooks, 1,
                                 message, NoMessage, e)
    IN  [log |-> log \o handled.log, result |-> NoMessage,
         raised |-> IF handled.raised # NoAgentError THEN handled.raised
                    ELSE e]

ExecuteTryPostFirst(a, message, log) ==
    LET post == RunAgentHooks("post", a.post_hooks, 1,
                              message, NoMessage, NoAgentError)
        processed == SimpleAgent_process(a, message)
        step == Invoked("process", 0, message, NoMessage, NoAgentError)
    IN  IF post.raised # NoAgentError
        THEN ExecuteExcept(a, message, log \o post.log, post.raised)
        ELSE IF processed.raised # NoAgentError
        THEN ExecuteExcept(a, message, (log \o post.log) \o <<step>>,
                           processed.raised)
        ELSE [log |-> (log \o post.log) \o <<step>>,
              result |-> processed.result, raised |-> NoAgentError]

\* The try block of execute: _process, then the post hooks with (message,
\* result), then "return result"; an exception of either goes to the
\* except block.
ExecuteTry(a, message, log) ==
    LET processed == SimpleAgent_process(a, message)
        step == Invoked("process", 0, message, NoMessage, NoAgentError)
    IN  IF processed.raised # NoAgentError
        THEN ExecuteExcept(a, message, Append(log, step), processed.raised)
        ELSE LET post == RunAgentHooks("post", a.post_hooks, 1, message,
                                       processed.result, NoAgentError)
             IN  IF post.raised # NoAgentError
                 THEN ExecuteExcept(a, message,
                                    Append(log, step) \o post.log,
                                    post.raised)
                 ELSE [log |-> Append(log, step) \o post.log,
                       result |-> processed.result,
                       raised |-> NoAgentError]

\* AgentHook.execute: the pre hooks run before the try block, so an
\* exception of a pre hook leaves execute as it is.
execute(a, message) ==
    LET pre == RunAgentHooks("pre", a.pre_hooks, 1,
                             message, NoMessage, NoAgentError)
    IN  IF pre.raised # NoAgentError
        THEN [log |-> pre.log, result |-> NoMessage, raised |-> pre.raised]
        ELSE ExecuteTry(a, message, pre.log)

\* The agent the model builds and executes on its own.
NoExec == [done |-> FALSE, message |-> NoMessage, log |-> <<>>,
           result |-> NoMessage, raised |-> NoAgentError]

\* SimpleAgent(agent_id, role, processor): a new agent replaces the one
\* under construction.
new_agent(processor) ==
    /\ agent' = SimpleAgent("A", "planner", processor)
    /\ exec' = NoExec

AgentHooksTotal ==
    Len(agent.pre_hooks) + Len(agent.post_hooks) + Len(agent.error_hooks)

\* before_execution: self._pre_hooks.append(hook).
before_execution(hook) ==
    /\ AgentHooksTotal < MaxAgentHooks
    /\ agent' = [agent EXCEPT !.pre_hooks = Append(@, hook)]
    /\ exec' = NoExec

\* after_execution: self._post_hooks.append(hook).
after_execution(hook) ==
    /\ AgentHooksTotal < MaxAgentHooks
    /\ agent' = [agent EXCEPT !.post_hooks = Append(@, hook)]
    /\ exec' = NoExec

\* on_error: self._error_hooks.append(hook).
on_error(hook) ==
    /\ AgentHooksTotal < MaxAgentHooks
    /\ agent' = [agent EXCEPT !.error_hooks = Append(@, hook)]
    /\ exec' = NoExec

\* await agent.execute(message).
agent_execute(message) ==
    /\ LET over == execute(agent, message)
       IN  exec' = [done |-> TRUE, message |-> message, log |-> over.log,
                    result |-> over.result, raised |-> over.raised]
    /\ UNCHANGED agent

\* ------------------------------------------------------------------------
\* AgentOrchestrator (agent_orchestration.py)
\* ------------------------------------------------------------------------
WorkflowNames == {"w"}
\* The names execute_workflow is called with: a name that may be
\* registered and one that never is.
ExecuteNames == {"w", "missing"}

\* The global hooks: "g" returns, "gboom" raises an Exception.
GlobalHookFuncs == {"g", "gboom"}

Role(agent_id) ==
    CASE agent_id = "A" -> "planner"
      [] agent_id = "B" -> "executor"
      [] OTHER -> "reviewer"

\* The agents given to register_agent: SimpleAgents without hooks of their
\* own.
RegisteredAgents ==
    {SimpleAgent(id, Role(id), processor) :
        id \in AgentIds, processor \in Processors}

\* The sequences of at most n elements of S.
SeqsUpTo(S, n) == UNION {[1..k -> S] : k \in 0..n}

\* The agent sequences given to register_workflow: every ordering of every
\* subset of the agent ids, and two sequences that name an agent twice.
WorkflowSequences ==
    {seq \in SeqsUpTo(AgentIds, Cardinality(AgentIds)) :
        \A i, j \in 1..Len(seq) : i # j => seq[i] # seq[j]}
    \cup {<<"A", "A">>, <<"A", "B", "A">>}

EmptyMap == [k \in {} |-> <<>>]

NoRun ==
    [phase |-> "idle", workflow_name |-> None, parallel |-> FALSE,
     initial_message |-> NoMessage,
     global_calls |-> <<>>,      \* the global hooks called, with arguments
     messages |-> <<>>,          \* the local list "messages"
     current_message |-> NoMessage,
     pos |-> 0,                  \* sequential: place in agent_sequence
     tasks |-> <<>>,             \* parallel: what was passed to gather
     executed |-> <<>>,          \* the execute calls begun, in order
     returned |-> <<>>,          \* the list execute_workflow returned
     error |-> NoAgentError]

RunOver == run.phase \in {"idle", "returned", "failed"}

\* An id that is already registered keeps its first agent.
PutAgentKeepsFirst(map, a) ==
    [id \in DOMAIN map \cup {a.agent_id} |->
        IF id \in DOMAIN map THEN map[id] ELSE a]

\* "self._agents[agent.agent_id] = agent": a dict assignment, which adds
\* the key or replaces its value.
PutAgent(map, a) ==
    [id \in DOMAIN map \cup {a.agent_id} |->
        IF id = a.agent_id THEN a ELSE map[id]]

\* register_agent: self._agents[agent.agent_id] = agent.
register_agent(a) ==
    /\ RunOver
    /\ agents' = PutAgent(agents, a)
    /\ last_registered' =
          [id \in DOMAIN last_registered \cup {a.agent_id} |->
              IF id = a.agent_id THEN a ELSE last_registered[id]]
    /\ run' = NoRun
    /\ UNCHANGED <<workflows, orchestrator_hooks>>

\* register_workflow: self._workflows[name] = agent_sequence.
register_workflow(name, agent_sequence) ==
    /\ RunOver
    /\ workflows' = [n \in DOMAIN workflows \cup {name} |->
                        IF n = name THEN agent_sequence ELSE workflows[n]]
    /\ run' = NoRun
    /\ UNCHANGED <<agents, orchestrator_hooks, last_registered>>

\* register_global_hook: self._global_hooks.append(hook).
register_global_hook(hook) ==
    /\ RunOver
    /\ Len(orchestrator_hooks) < MaxGlobalHooks
    /\ orchestrator_hooks' = Append(orchestrator_hooks, hook)
    /\ run' = NoRun
    /\ UNCHANGED <<agents, workflows, last_registered>>

\* Global hooks called twice each.
RECURSIVE RunGlobalHooksTwice(_, _, _)
RunGlobalHooksTwice(i, workflow_name, message) ==
    IF i > Len(orchestrator_hooks) THEN [log |-> <<>>, raised |-> NoAgentError]
    ELSE LET entry == [index |-> i, workflow_name |-> workflow_name,
                       message |-> message]
             rest == RunGlobalHooksTwice(i + 1, workflow_name, message)
         IN  IF orchestrator_hooks[i] = "gboom"
             THEN [log |-> <<entry>>,
                   raised |-> AgentErr("HookError", "global", i)]
             ELSE [log |-> <<entry, entry>> \o rest.log,
                   raised |-> rest.raised]

\* Global hooks called inside a try that swallows their exceptions.
RECURSIVE RunGlobalHooksIsolated(_, _, _)
RunGlobalHooksIsolated(i, workflow_name, message) ==
    IF i > Len(orchestrator_hooks) THEN [log |-> <<>>, raised |-> NoAgentError]
    ELSE LET entry == [index |-> i, workflow_name |-> workflow_name,
                       message |-> message]
             rest == RunGlobalHooksIsolated(i + 1, workflow_name, message)
         IN  [log |-> <<entry>> \o rest.log, raised |-> NoAgentError]

\* "for hook in self._global_hooks: await hook(workflow_name,
\* current_message) / hook(...)": no try around the call.
RECURSIVE RunGlobalHooks(_, _, _)
RunGlobalHooks(i, workflow_name, message) ==
    IF i > Len(orchestrator_hooks) THEN [log |-> <<>>, raised |-> NoAgentError]
    ELSE LET entry == [index |-> i, workflow_name |-> workflow_name,
                       message |-> message]
         IN  IF orchestrator_hooks[i] = "gboom"
             THEN [log |-> <<entry>>,
                   raised |-> AgentErr("HookError", "global", i)]
             ELSE LET rest == RunGlobalHooks(i + 1, workflow_name, message)
                  IN  [log |-> <<entry>> \o rest.log, raised |-> rest.raised]

\* The lookup of the name placed after the global hooks.
NotFoundAfterHooks(called) ==
    [called EXCEPT
        !.phase = "failed",
        !.error = AgentErr("ValueError", called.workflow_name, 0),
        !.global_calls = RunGlobalHooks(1, called.workflow_name,
                                        called.initial_message).log]

\* "if workflow_name not in self._workflows: raise ValueError(...)", the
\* first statement of execute_workflow.
NotFound(called) ==
    [called EXCEPT
        !.phase = "failed",
        !.error = AgentErr("ValueError", called.workflow_name, 0)]

\* "return messages".
Return(r) == [r EXCEPT !.phase = "returned", !.returned = r.messages]

\* Sequential branch: the loop over agent_sequence from place pos up to the
\* next "await agent.execute(current_message)"; an id that is not in
\* self._agents is passed over, after the last id the list is returned.
RECURSIVE NextAgent(_, _)
NextAgent(r, pos) ==
    LET agent_sequence == workflows[r.workflow_name]
    IN  IF pos > Len(agent_sequence) THEN Return([r EXCEPT !.pos = 0])
        ELSE IF agent_sequence[pos] \in DOMAIN agents
        THEN [r EXCEPT !.phase = "running", !.pos = pos]
        ELSE NextAgent(r, pos + 1)

\* Parallel branch: "tasks.append(agent.execute(current_message))" for the
\* ids found in self._agents; each coroutine holds the agent object and
\* the message it was made with.
RECURSIVE MakeTasks(_, _)
MakeTasks(r, pos) ==
    LET agent_sequence == workflows[r.workflow_name]
    IN  IF pos > Len(agent_sequence) THEN <<>>
        ELSE IF agent_sequence[pos] \in DOMAIN agents
        THEN <<[agent |-> agents[agent_sequence[pos]],
                message |-> r.current_message,
                status |-> "new",
                result |-> NoMessage,
                raised |-> NoAgentError]>> \o MakeTasks(r, pos + 1)
        ELSE MakeTasks(r, pos + 1)

TaskOver(task) == task.status \in {"done", "failed"}

\* "messages.extend([r for r in results if isinstance(r, AgentMessage)])":
\* the results in the order of the tasks, the exceptions left out.
RECURSIVE Successes(_, _)
SuccessesKeepRaised(tasks, k) ==
    IF k > Len(tasks) THEN <<>>
    ELSE <<tasks[k].result>> \o Successes(tasks, k + 1)

Successes(tasks, k) ==
    IF k > Len(tasks) THEN <<>>
    ELSE IF tasks[k].status = "done"
    THEN <<tasks[k].result>> \o Successes(tasks, k + 1)
    ELSE Successes(tasks, k + 1)

GatherAgentsRaises(r) ==
    IF \E k \in 1..Len(r.tasks) : r.tasks[k].status = "failed"
    THEN LET k == CHOOSE k \in 1..Len(r.tasks) : r.tasks[k].status = "failed"
         IN  [r EXCEPT !.phase = "failed", !.error = r.tasks[k].raised]
    ELSE IF \A k \in 1..Len(r.tasks) : TaskOver(r.tasks[k])
    THEN Return([r EXCEPT !.messages = @ \o Successes(r.tasks, 1)])
    ELSE [r EXCEPT !.phase = "running"]

\* "results = await asyncio.gather(*tasks, return_exceptions=True)": gather
\* gives its list when every task is over; then the successes are added
\* to messages and the list is returned.
GatherAgents(r) ==
    IF \A k \in 1..Len(r.tasks) : TaskOver(r.tasks[k])
    THEN Return([r EXCEPT !.messages = @ \o Successes(r.tasks, 1)])
    ELSE [r EXCEPT !.phase = "running"]

\* execute_workflow up to its first wait: the name is looked up, messages
\* and current_message start from the initial message, the global hooks
\* run, then the agents are started in the given mode.
execute_workflow(workflow_name, initial_message, parallel) ==
    /\ RunOver
    /\ LET called == [NoRun EXCEPT !.workflow_name = workflow_name,
                                   !.parallel = parallel,
                                   !.initial_message = initial_message]
       IN  run' =
             IF workflow_name \notin DOMAIN workflows
             THEN NotFound(called)
             ELSE LET global == RunGlobalHooks(1, workflow_name,
                                               initial_message)
                      started == [called EXCEPT
                                     !.messages = <<initial_message>>,
                                     !.current_message = initial_message,
                                     !.global_calls = global.log]
                  IN  IF global.raised # NoAgentError
                      THEN [started EXCEPT !.phase = "failed",
                                           !.error = global.raised]
                      ELSE IF parallel
                      THEN GatherAgents(
                             [started EXCEPT !.tasks = MakeTasks(started, 1)])
                      ELSE NextAgent(started, 1)
    /\ UNCHANGED <<agents, workflows, orchestrator_hooks, last_registered>>

\* One entry of run.executed: the agent object whose execute was called
\* and the message it was called with.
Executed(a, message) ==
    [agent_id |-> a.agent_id, agent |-> a, message |-> message]

\* The history appended to the input's own list.
InputAfterAppended(a, message) ==
    [message EXCEPT !.previous_messages = Append(@, message)]

\* The message object given to SimpleAgent._process, as the call leaves
\* it: _process reads message.content, message.metadata and
\* message.previous_messages and builds the new history with "+", a new
\* list, so no field of the input is assigned or appended to.
InputAfter(a, message) == message

\* messages[place] is the object that was passed to the execute that is
\* now over.
InputWritten(r, place, a, done) ==
    IF done.raised # NoAgentError THEN r
    ELSE [r EXCEPT !.messages[place] = InputAfter(a, @)]

\* Sequential branch, the awaited execute is over: "messages.append(result);
\* current_message = result" and on to the next agent, or the exception of
\* execute leaves execute_workflow.
ChainKeepsCurrent(r, result) ==
    [r EXCEPT !.messages = Append(@, result)]

Chain(r, result) ==
    [r EXCEPT !.messages = Append(@, result), !.current_message = result]

AfterAgentSkipsFailure(r, done) ==
    IF done.raised # NoAgentError
    THEN NextAgent(r, r.pos + 1)
    ELSE NextAgent(Chain(r, done.result), r.pos + 1)

AfterAgent(r, done) ==
    IF done.raised # NoAgentError
    THEN [r EXCEPT !.phase = "failed", !.error = done.raised]
    ELSE NextAgent(Chain(r, done.result), r.pos + 1)

\* Sequential branch: "agent = self._agents[agent_id]; result = await
\* agent.execute(current_message)" for the agent the loop has reached.
agent_runs ==
    /\ run.phase = "running"
    /\ ~run.parallel
    /\ LET a == agents[workflows[run.workflow_name][run.pos]]
           done == execute(a, run.current_message)
       IN  run' = AfterAgent(
                    InputWritten(
                        [run EXCEPT !.executed =
                            Append(@, Executed(a, run.current_message))],
                        Len(run.messages), a, done),
                    done)
    /\ UNCHANGED <<agents, workflows, orchestrator_hooks, last_registered>>

\* Parallel branch: task k made by gather takes its first step.  The tasks
\* start in the order gather made them.  A task whose processor is a plain
\* function runs to its end in that step; an async def processor is
\* awaited and the task ends in a later step.
task_starts(k) ==
    /\ run.phase = "running"
    /\ run.parallel
    /\ k \in 1..Len(run.tasks)
    /\ run.tasks[k].status = "new"
    /\ \A j \in 1..(k - 1) : run.tasks[j].status # "new"
    /\ LET task == run.tasks[k]
           done == execute(task.agent, task.message)
           begun == [run EXCEPT !.executed =
                        Append(@, Executed(task.agent, task.message))]
       IN  run' =
             IF task.agent.processor = "aok"
             THEN [begun EXCEPT !.tasks[k].status = "running"]
             ELSE GatherAgents(
                    [InputWritten(begun, 1, task.agent, done) EXCEPT
                        !.tasks[k].status =
                            IF done.raised # NoAgentError THEN "failed"
                            ELSE "done",
                        !.tasks[k].result = done.result,
                        !.tasks[k].raised = done.raised])
    /\ UNCHANGED <<agents, workflows, orchestrator_hooks, last_registered>>

\* Parallel branch: the awaited processor of task k is over and the task
\* ends.
task_ends(k) ==
    /\ run.phase = "running"
    /\ run.parallel
    /\ k \in 1..Len(run.tasks)
    /\ run.tasks[k].status = "running"
    /\ LET task == run.tasks[k]
           done == execute(task.agent, task.message)
       IN  run' = GatherAgents(
                    [InputWritten(run, 1, task.agent, done) EXCEPT
                        !.tasks[k].status =
                            IF done.raised # NoAgentError THEN "failed"
                            ELSE "done",
                        !.tasks[k].result = done.result,
                        !.tasks[k].raised = done.raised])
    /\ UNCHANGED <<agents, workflows, orchestrator_hooks, last_registered>>

\* ------------------------------------------------------------------------
\* Specifications
\* ------------------------------------------------------------------------
InitOrchestrator ==
    /\ agents = EmptyMap
    /\ workflows = EmptyMap
    /\ orchestrator_hooks = <<>>
    /\ last_registered = EmptyMap
    /\ run = NoRun

InitAgent ==
    /\ agent = SimpleAgent("A", "planner", "ok")
    /\ exec = NoExec

InitTrigger ==
    /\ async_hooks = [g \in GroupNames |-> <<>>]
    /\ call = NoCall

InitScope ==
    /\ setup_hooks = <<>>
    /\ teardown_hooks = <<>>
    /\ resources = EmptyDict
    /\ scope = NoScope

InitPipeline ==
    /\ stages = <<>>
    /\ error_handlers = <<>>
    /\ proc = NoProcess
    /\ stream = NoStream

InitRegistry ==
    /\ hooks = <<>>
    /\ global_hooks = <<>>
    /\ next_seq = 0
    /\ trig = NoTrigger

Init ==
    /\ InitRegistry
    /\ InitPipeline
    /\ InitScope
    /\ InitTrigger
    /\ InitAgent
    /\ InitOrchestrator

Register ==
    /\ \E event \in Events \cup {None}, priority \in Priorities,
          func \in Funcs, enabled \in RegisterEnabled :
           register(event, priority, func, enabled)
    /\ UNCHANGED notRegistry

Trigger ==
    /\ \E event \in TriggerEvents, arg \in Args : trigger(event, arg)
    /\ UNCHANGED notRegistry

EnableHook ==
    /\ \E name \in Funcs : enable_hook(name)
    /\ UNCHANGED notRegistry

DisableHook ==
    /\ \E name \in Funcs : disable_hook(name)
    /\ UNCHANGED notRegistry

NextRegistry ==
    \/ Register
    \/ Trigger
    \/ EnableHook
    \/ DisableHook

SpecRegistry == Init /\ [][NextRegistry]_vars

AddStage ==
    /\ \E stage \in StageFuncs, error_handler \in Handlers \cup {None} :
           add_stage(stage, error_handler)
    /\ UNCHANGED notPipeline

Process ==
    /\ \E data \in Data : process(data)
    /\ UNCHANGED notPipeline

NextPipeline ==
    \/ AddStage
    \/ Process

SpecPipeline == Init /\ [][NextPipeline]_vars

ProcessStream ==
    /\ \E data_stream \in Streams : process_stream(data_stream)
    /\ UNCHANGED notPipeline

Anext ==
    /\ anext
    /\ UNCHANGED notPipeline

\* The pipeline used through process_stream.
NextStream ==
    \/ AddStage
    \/ ProcessStream
    \/ Anext

SpecStream == Init /\ [][NextStream]_vars

Setup ==
    /\ \E hook \in SetupFuncs : setup(hook)
    /\ UNCHANGED notScope

Teardown ==
    /\ \E hook \in TeardownFuncs : teardown(hook)
    /\ UNCHANGED notScope

AEnter ==
    /\ aenter
    /\ UNCHANGED notScope

BodyEnds ==
    /\ \E raised \in BOOLEAN : body_ends(raised)
    /\ UNCHANGED notScope

AExit ==
    /\ aexit
    /\ UNCHANGED notScope

NextScope ==
    \/ Setup
    \/ Teardown
    \/ AEnter
    \/ BodyEnds
    \/ AExit

SpecScope == Init /\ [][NextScope]_vars

RegisterAsync ==
    /\ \E group \in GroupNames, event \in AsyncEvents, hook \in AsyncFuncs :
           register_async(group, event, hook)
    /\ UNCHANGED notTrigger

TriggerAsync ==
    /\ \E event \in AsyncEvents, concurrent \in BOOLEAN, timeout \in Timeouts :
           trigger_async(event, concurrent, timeout)
    /\ UNCHANGED notTrigger

HookStarts ==
    /\ \E group \in GroupNames, i \in 1..MaxAsyncHooks : hook_starts(group, i)
    /\ UNCHANGED notTrigger

HookEnds ==
    /\ \E group \in GroupNames, i \in 1..MaxAsyncHooks : hook_ends(group, i)
    /\ UNCHANGED notTrigger

TimeoutExpires ==
    /\ timeout_expires
    /\ UNCHANGED notTrigger

NextTrigger ==
    \/ RegisterAsync
    \/ TriggerAsync
    \/ HookStarts
    \/ HookEnds
    \/ TimeoutExpires

SpecTrigger == Init /\ [][NextTrigger]_vars

NewAgent ==
    /\ \E processor \in Processors : new_agent(processor)
    /\ UNCHANGED notAgent

BeforeExecution ==
    /\ \E hook \in AgentHookFuncs : before_execution(hook)
    /\ UNCHANGED notAgent

AfterExecution ==
    /\ \E hook \in AgentHookFuncs : after_execution(hook)
    /\ UNCHANGED notAgent

OnError ==
    /\ \E hook \in AgentHookFuncs : on_error(hook)
    /\ UNCHANGED notAgent

AgentExecute ==
    /\ \E message \in Messages : agent_execute(message)
    /\ UNCHANGED notAgent

NextAgentHook ==
    \/ NewAgent
    \/ BeforeExecution
    \/ AfterExecution
    \/ OnError
    \/ AgentExecute

SpecAgent == Init /\ [][NextAgentHook]_vars

RegisterAgent ==
    /\ \E a \in RegisteredAgents : register_agent(a)
    /\ UNCHANGED notOrchestrator

RegisterWorkflow ==
    /\ \E name \in WorkflowNames,
          agent_sequence \in WorkflowSequences :
           register_workflow(name, agent_sequence)
    /\ UNCHANGED notOrchestrator

RegisterGlobalHook ==
    /\ \E hook \in GlobalHookFuncs : register_global_hook(hook)
    /\ UNCHANGED notOrchestrator

ExecuteWorkflow ==
    /\ \E workflow_name \in ExecuteNames, parallel \in BOOLEAN :
           execute_workflow(workflow_name, InitialMessage, parallel)
    /\ UNCHANGED notOrchestrator

AgentRuns ==
    /\ agent_runs
    /\ UNCHANGED notOrchestrator

TaskStarts ==
    /\ \E k \in 1..Len(run.tasks) : task_starts(k)
    /\ UNCHANGED notOrchestrator

TaskEnds ==
    /\ \E k \in 1..Len(run.tasks) : task_ends(k)
    /\ UNCHANGED notOrchestrator

NextOrchestrator ==
    \/ RegisterAgent
    \/ RegisterWorkflow
    \/ RegisterGlobalHook
    \/ ExecuteWorkflow
    \/ AgentRuns
    \/ TaskStarts
    \/ TaskEnds

SpecOrchestrator == Init /\ [][NextOrchestrator]_vars

Next ==
    \/ NextRegistry
    \/ NextPipeline
    \/ NextStream
    \/ NextScope
    \/ NextTrigger
    \/ NextAgentHook
    \/ NextOrchestrator

Spec == Init /\ [][Next]_vars

\* ========================================================================
\* Properties of the HookRegistry (checked under SpecRegistry)
\* ========================================================================
\* Non-increasing priority, equal priorities in registration order.
IsOrdered(list) ==
    \A i, j \in 1..Len(list) :
        i < j => \/ list[i].priority > list[j].priority
                 \/ /\ list[i].priority = list[j].priority
                    /\ list[i].seq < list[j].seq

EventList(event) == IF event \in DOMAIN hooks THEN hooks[event] ELSE <<>>

AllRecords ==
    {global_hooks[i] : i \in 1..Len(global_hooks)} \cup
    UNION {{hooks[ev][i] : i \in 1..Len(hooks[ev])} : ev \in DOMAIN hooks}

RecordsOf(list) == {list[i] : i \in 1..Len(list)}

HookBySeq(s) == CHOOSE h \in AllRecords : h.seq = s

EnabledSeqs(list) ==
    LET on == SelectSeq(list, LAMBDA h : h.enabled)
    IN  [i \in 1..Len(on) |-> on[i].seq]

\* C1: after any sequence of register calls every per-event list and the
\* global list is in non-increasing priority order with equal priorities in
\* registration order, and trigger invokes the enabled hooks of the global
\* list and of the event's list in exactly that order.
C1_PriorityOrder ==
    /\ IsOrdered(global_hooks)
    /\ \A ev \in DOMAIN hooks : IsOrdered(hooks[ev])
    /\ trig.done =>
          trig.calls = EnabledSeqs(global_hooks) \o
                       EnabledSeqs(EventList(trig.event))

\* A list of three records that the sort reordered, holding a tie and two
\* different priorities, all three invoked by a trigger.
C1_Witness ==
    /\ trig.done
    /\ Len(EventList("e")) = 3
    /\ LET l == hooks["e"]
       IN  /\ l[1].priority = l[2].priority
           /\ l[2].priority > l[3].priority
           /\ l[3].seq = 1
           /\ \A i \in 1..3 : l[i].enabled
    /\ Len(trig.calls) = 3

\* C2: trigger never lets a hook's error escape; a hook that raises adds
\* no entry to the results; every enabled hook of the global list and of
\* the event's list is invoked exactly once, so the results have one entry
\* per enabled hook that returned normally.
C2_Isolation ==
    trig.done =>
        LET fired == {h \in RecordsOf(global_hooks) \cup
                            RecordsOf(EventList(trig.event)) : h.enabled}
        IN  /\ ~trig.escaped
            /\ {trig.calls[i] : i \in 1..Len(trig.calls)} =
                   {h.seq : h \in fired}
            /\ Len(trig.calls) = Cardinality(fired)
            /\ Len(trig.results) =
                   Cardinality({h \in fired : ~FuncRaises(h.func)})
            /\ Len(trig.logged) =
                   Cardinality({h \in fired : FuncRaises(h.func)})

\* Three enabled event hooks of which the second raises: the first and the
\* third are invoked and exactly two results are returned.
C2_Witness ==
    /\ trig.done
    /\ global_hooks = <<>>
    /\ Len(EventList("e")) = 3
    /\ LET l == hooks["e"]
       IN  /\ \A i \in 1..3 : l[i].enabled
           /\ ~FuncRaises(l[1].func)
           /\ FuncRaises(l[2].func)
           /\ ~FuncRaises(l[3].func)
           /\ trig.calls = <<l[1].seq, l[2].seq, l[3].seq>>
    /\ Len(trig.results) = 2
    /\ ~trig.escaped

InvokedRecords == {HookBySeq(trig.calls[i]) : i \in 1..Len(trig.calls)}

OnlyFlagOf(before, after, name, value) ==
    /\ Len(after) = Len(before)
    /\ \A i \in 1..Len(before) :
          /\ after[i].func = before[i].func
          /\ after[i].name = before[i].name
          /\ after[i].priority = before[i].priority
          /\ after[i].seq = before[i].seq
          /\ after[i].enabled =
                IF before[i].name = name THEN value ELSE before[i].enabled

\* A step that registers nothing either leaves every list as it is (a
\* trigger, or no record has the name) or sets the flag of the records of
\* one name in the global list and in every event list.
EnableDisableStep ==
    next_seq' = next_seq =>
        \/ /\ hooks' = hooks
           /\ global_hooks' = global_hooks
        \/ \E name \in Funcs, value \in BOOLEAN :
              /\ \E h \in AllRecords : h.name = name
              /\ OnlyFlagOf(global_hooks, global_hooks', name, value)
              /\ DOMAIN hooks' = DOMAIN hooks
              /\ \A ev \in DOMAIN hooks :
                    OnlyFlagOf(hooks[ev], hooks'[ev], name, value)

\* The trigger call just over invoked no record whose flag is off.
InvokedEnabled == trig.done => \A h \in InvokedRecords : h.enabled

PureStage(f, x) == IF f = "inc" THEN x + 1 ELSE x * 2

\* s_{k-1}(...s_1(s_0(x))...): the first k stages applied in turn.
RECURSIVE Composed(_, _)
Composed(k, x) ==
    IF k = 0 THEN x ELSE PureStage(stages[k], Composed(k - 1, x))

NoStageFails == \A k \in 1..Len(stages) : stages[k] \in {"inc", "adbl"}

\* C4: when no stage fails, process(x) invokes every stage exactly once in
\* index order, stage i+1 receives the output of stage i, and the result
\* is s_{n-1}(...s_1(s_0(x))...); with no stages the result is x.
C4_Threading ==
    (proc.done /\ NoStageFails) =>
        /\ Len(proc.calls) = Len(stages)
        /\ \A k \in 1..Len(proc.calls) :
              /\ proc.calls[k].index = k - 1
              /\ proc.calls[k].input = Composed(k - 1, proc.data)
        /\ proc.result = Composed(Len(stages), proc.data)
        /\ proc.raised = NoError
        /\ proc.handled = <<>>

\* process(2) through x + 1, x * 2, x + 1 returns 7.
C4_Witness ==
    /\ proc.done
    /\ stages = <<"inc", "adbl", "inc">>
    /\ proc.data = 2
    /\ proc.result = 7
    /\ Len(proc.calls) = 3

\* C5: when stage i raises and has an error handler (one that returns a
\* value), the handler is invoked with (the input of stage i, the error),
\* its return value becomes the current value (the input of stage i+1, or
\* the result after the last stage) and process does not raise there.
C5_Recovery ==
    proc.done =>
        \A k \in 1..Len(proc.calls) :
            LET c == proc.calls[k]
                i == c.index
            IN  (/\ c.out.kind = "raise"
                 /\ i \in DOMAIN error_handlers
                 /\ Body(error_handlers[i], <<c.input, c.out.err>>).kind = "value")
                =>
                LET ret == Body(error_handlers[i], <<c.input, c.out.err>>).val
                IN  /\ \E j \in 1..Len(proc.handled) :
                          /\ proc.handled[j].index = i
                          /\ proc.handled[j].data = c.input
                          /\ proc.handled[j].error = c.out.err
                    /\ IF i + 1 < Len(stages)
                       THEN /\ k < Len(proc.calls)
                            /\ proc.calls[k + 1].index = i + 1
                            /\ proc.calls[k + 1].input = ret
                       ELSE /\ proc.result = ret
                            /\ proc.raised = NoError

\* C6: when stage i raises and no handler is registered for stage i, even
\* if other stages have handlers, process raises that error, the handler
\* of no stage is given it, and no stage after i is invoked.
C6_Abort ==
    proc.done =>
        \A k \in 1..Len(proc.calls) :
            LET c == proc.calls[k]
            IN  (c.out.kind = "raise" /\ c.index \notin DOMAIN error_handlers)
                =>
                /\ proc.raised = c.out.err
                /\ k = Len(proc.calls)
                /\ \A n \in 1..Len(proc.calls) : proc.calls[n].index <= c.index
                /\ \A j \in 1..Len(proc.handled) : proc.handled[j].index # c.index

\* Three stages with handlers on the first and the third only; the second
\* raises: process raises its error and the third stage is not invoked.
C6_Witness ==
    /\ proc.done
    /\ stages = <<"inc", "boom", "inc">>
    /\ DOMAIN error_handlers = {0, 2}
    /\ proc.raised = "ValueError"
    /\ Len(proc.calls) = 2


\* The positions in the generator's log of the events of one kind.
StreamPositions(ev) ==
    {p \in 1..Len(stream.log) : stream.log[p].ev = ev}

\* The position of the event of this kind for item k.
StreamPosition(ev, k) ==
    CHOOSE p \in StreamPositions(ev) : stream.log[p].k = k

\* process raises on no item of the stream.
AllItemsProcess ==
    \A k \in 1..Len(stream.source) :
        ProcessItem(stream.source[k]).raised = NoError

\* C25: for an input sequence whose items all process without an
\* unrecovered failure, process_stream yields exactly one output per
\* input, the k-th output being process(k-th input), in arrival order; the
\* next input is pulled only after the previous output has been handed to
\* the consumer and the consumer has asked for the next one (nothing is
\* buffered or reordered), and what an item yields depends on that item
\* alone.
C25_StreamOrder ==
    (stream.phase # "none" /\ AllItemsProcess) =>
        /\ stream.phase \in {"suspended", "exhausted"}
        /\ stream.raised = NoError
        /\ Len(stream.outputs) = stream.pulled
        /\ stream.pulled <= Len(stream.source)
        /\ \A k \in 1..Len(stream.outputs) :
              /\ stream.outputs[k] = ProcessItem(stream.source[k]).result
              /\ \E r, p, y \in 1..Len(stream.log) :
                    /\ r < p /\ p < y
                    /\ stream.log[r] = StreamEvent("request", k, 0)
                    /\ stream.log[p] =
                          StreamEvent("pull", k, stream.source[k])
                    /\ stream.log[y] =
                          StreamEvent("yield", k, stream.outputs[k])
                    /\ k > 1 =>
                          StreamPosition("yield", k - 1) < r
        /\ Cardinality(StreamPositions("pull")) = stream.pulled
        /\ Cardinality(StreamPositions("yield")) = Len(stream.outputs)
        /\ stream.phase = "exhausted" =>
              Len(stream.outputs) = Len(stream.source)

\* The stream 2, 1 through the stages x + 1 and x * 2 has ended: the
\* consumer was handed 6 and then 4.
C25_Witness ==
    /\ stream.phase = "exhausted"
    /\ stream.source = <<2, 1>>
    /\ stages = <<"inc", "adbl">>
    /\ stream.outputs = <<6, 4>>
    /\ Len(stream.log) = 7

\* ========================================================================
\* Properties of the AsyncHookContext (checked under SpecScope)
\* ========================================================================
\* The positions in the log of the events of one kind.
LogPositions(ev) == {p \in 1..Len(scope.log) : scope.log[p].ev = ev}

TeardownCalls == SelectSeq(scope.log, LAMBDA e : e.ev = "teardown")

TeardownRaised(i) == teardown_hooks[i] = "t_boom"

\* C7: on exit every registered teardown hook is invoked even if a
\* teardown hook run before it raises, and the first failure is raised to
\* the caller after all of them have run.
C7_TeardownAlwaysRuns ==
    (scope.phase = "closed" /\ scope.exit_ran) =>
        /\ \A i \in 1..Len(teardown_hooks) :
              \E k \in 1..Len(TeardownCalls) : TeardownCalls[k].hook = i
        /\ \A k \in 1..Len(TeardownCalls) :
              (/\ TeardownRaised(TeardownCalls[k].hook)
               /\ \A n \in 1..(k - 1) : ~TeardownRaised(TeardownCalls[n].hook))
              => scope.error = Err("TeardownError", TeardownCalls[k].hook)

\* The setup hooks that ran in this use and returned a dict holding key.
Writers(key) ==
    {scope.log[p].hook : p \in
        {q \in LogPositions("setup") :
            LET r == SetupReturn(setup_hooks[scope.log[q].hook])
            IN  r.is_dict /\ key \in DOMAIN r.dict}}

Last(S) == CHOOSE x \in S : \A y \in S : y <= x

\* C8: on every exit, after a body that returned or raised, the teardown
\* hooks are invoked in the reverse of their registration order, after
\* the body has finished and after all setup hooks, and each is passed
\* the resource map the setup hooks accumulated (last write wins).
C8_TeardownOrder ==
    /\ \A p \in LogPositions("teardown") :
          /\ \E b \in LogPositions("body") : b < p
          /\ \A q \in LogPositions("setup") : q < p
          /\ scope.log[p].res = resources
          /\ \A key \in {"db", "cache"} :
                Writers(key) # {} =>
                    /\ key \in DOMAIN scope.log[p].res
                    /\ scope.log[p].res[key] =
                          SetupReturn(setup_hooks[Last(Writers(key))]).dict[key]
    /\ \A k \in 1..Len(TeardownCalls) :
          TeardownCalls[k].hook = Len(teardown_hooks) + 1 - k
    /\ (scope.phase = "closed" /\ scope.exit_ran
            /\ scope.error.type # "TeardownError")
          => Len(TeardownCalls) = Len(teardown_hooks)
    /\ scope.phase = "closed" =>
          (scope.exit_ran <=> scope.body \in {"returned", "raised"})

\* A body that raised, after two setup hooks of which the second
\* overwrote "db": the three teardown hooks ran last-registered first.
C8_Witness ==
    /\ scope.phase = "closed" /\ scope.exit_ran
    /\ scope.body = "raised"
    /\ setup_hooks = <<"s_db", "s_both">>
    /\ Len(TeardownCalls) = 3
    /\ TeardownCalls[1].hook = 3 /\ TeardownCalls[3].hook = 1
    /\ TeardownCalls[3].res = [k \in {"db", "cache"} |-> 2]

\* C9: when the body raised, the caller of the scope observes a failure,
\* reported once __aexit__ has ended: the body's own exception unless a
\* teardown hook raised.
C9_NeverSwallows ==
    /\ (scope.phase = "closed" /\ scope.body = "raised") =>
          /\ scope.exit_ran
          /\ scope.error # NoErr
          /\ (\A k \in 1..Len(TeardownCalls) :
                 ~TeardownRaised(TeardownCalls[k].hook))
             => scope.error = Err("BodyError", 0)
    /\ scope.phase \in {"active", "exiting"} => scope.error = NoErr

\* A body that raised, two teardown hooks that ran, and the body's
\* exception reported to the caller.
C9_Witness ==
    /\ scope.phase = "closed"
    /\ scope.body = "raised"
    /\ Len(TeardownCalls) = 2
    /\ scope.error = Err("BodyError", 0)

\* C26: the resource map is destroyed when the scope exits: after exit it
\* holds no entries, and a second entry of the same context starts from an
\* empty map, so that after its first setup hook the map holds what that
\* hook returned and nothing else.
C26_ResourcesDestroyed ==
    /\ (scope.phase = "closed" /\ scope.exit_ran) => resources = EmptyDict
    /\ (scope.uses >= 2 /\ scope.log # <<>> /\ scope.log[1].ev = "setup"
           /\ scope.error.type # "SetupError") =>
          scope.log[1].res = SetupReturn(setup_hooks[1]).dict

\* C30: if a setup hook raises while the scope is entered, the entry fails
\* with that error, the setup hooks after it do not run, the body does not
\* run and no teardown hook is invoked; what the setup hooks before it
\* returned stays in the resource map.
C30_SetupFailure ==
    /\ \A p \in 1..Len(scope.log) :
          (scope.log[p].ev = "setup"
              /\ setup_hooks[scope.log[p].hook] = "s_boom") =>
              /\ scope.error = Err("SetupError", scope.log[p].hook)
              /\ p = Len(scope.log)
    /\ scope.error.type = "SetupError" =>
          LET i == scope.error.at
          IN  /\ scope.phase = "closed"
              /\ scope.body = "none"
              /\ ~scope.exit_ran
              /\ setup_hooks[i] = "s_boom"
              /\ Len(scope.log) = i
              /\ \A p \in 1..i :
                    /\ scope.log[p].ev = "setup"
                    /\ scope.log[p].hook = p
              /\ scope.log[i].res = resources
              /\ \A j \in 1..(i - 1) :
                    /\ setup_hooks[j] # "s_boom"
                    /\ \A key \in DOMAIN SetupReturn(setup_hooks[j]).dict :
                          key \in DOMAIN resources

\* The second of two setup hooks raises, with a teardown hook registered:
\* the entry has failed, the teardown hook has not run and the resource of
\* the first setup hook is in the map.
C30_Witness ==
    /\ scope.error = Err("SetupError", 2)
    /\ setup_hooks = <<"s_db", "s_boom">>
    /\ teardown_hooks # <<>>
    /\ scope.uses = 1
    /\ Len(scope.log) = 2
    /\ resources = [k \in {"db"} |-> 1]

\* ========================================================================
\* Properties of the AsyncHookRegistry (checked under SpecTrigger)
\* ========================================================================
\* A hook of the group has begun to run.
Started(group) ==
    \E i \in 1..Len(call.status[group]) :
        call.status[group][i] \in {"running", "done", "failed"}

\* Every hook registered in the group for the event has returned or raised.
Completed(group) ==
    /\ Len(call.status[group]) = Len(HooksOf(group, call.event))
    /\ \A i \in 1..Len(call.status[group]) : Finished(call.status[group][i])

\* C10: within one trigger call, concurrent or sequential, every pre-hook
\* has completed before any main hook starts and every main hook has
\* completed before any post-hook starts; the returned mapping has the
\* keys pre, main and post, each holding the results of its group, empty
\* when the event has no hooks in the group.
C10_GroupOrder ==
    /\ Started("main") => Completed("pre")
    /\ Started("post") => Completed("pre") /\ Completed("main")
    /\ call.phase = "returned" =>
          /\ DOMAIN call.results = {"pre", "main", "post"}
          /\ \A group \in GroupNames :
                LET list == HooksOf(group, call.event)
                IN  /\ Len(call.results[group]) = Len(list)
                    /\ \A i \in 1..Len(list) :
                          /\ call.results[group][i].hook = i
                          /\ call.results[group][i].returned = (list[i] # "fail")

\* A concurrent trigger returned after running two pre-hooks, a main hook
\* and a post-hook.
C10_Witness ==
    /\ call.phase = "returned"
    /\ call.concurrent
    /\ Len(call.results["pre"]) = 2
    /\ Len(call.results["main"]) = 1
    /\ Len(call.results["post"]) = 1

\* Every hook of the group is an async def, so gather accepts the group.
AllAwaitable(group) ==
    \A i \in 1..Len(HooksOf(group, call.event)) :
        HooksOf(group, call.event)[i] # "sync"

\* The positions of the group whose hook has raised.
FailedIn(group) ==
    {i \in 1..Len(call.status[group]) : call.status[group][i] = "failed"}

\* C11: in a trigger call with concurrent=true a hook that raises does not
\* make trigger fail and does not keep a sibling of its group from running
\* to its end; once the group has finished, its result list has one slot
\* per registered hook, in registration order whatever the order in which
\* the hooks finished, and the slot of a hook that raised holds its
\* exception.
C11_ConcurrentIsolation ==
    call.concurrent =>
        /\ call.error # "HookError"
        /\ \A group \in GroupNames :
              LET list == HooksOf(group, call.event)
              IN  /\ (FailedIn(group) # {} /\ call.error = NoError) =>
                        \A j \in 1..Len(call.status[group]) :
                            call.status[group][j]
                                \in {"new", "running", "done", "failed"}
                  /\ (Completed(group) /\ AllAwaitable(group)) =>
                        /\ Len(call.results[group]) = Len(list)
                        /\ \A i \in 1..Len(list) :
                              /\ call.results[group][i].hook = i
                              /\ call.results[group][i].returned
                                    = (i \notin FailedIn(group))

\* A concurrent trigger returned although the first main hook raised; its
\* two siblings ran to their end and the list has three slots.
C11_Witness ==
    /\ call.concurrent
    /\ call.phase = "returned"
    /\ call.status["main"] = <<"failed", "done", "done">>
    /\ Len(call.results["main"]) = 3
    /\ ~call.results["main"][1].returned

\* C12: in a trigger call with concurrent=false a main hook that raises
\* makes trigger fail with that exception at once: no later main hook and
\* no post-hook is invoked.
C12_SequentialPropagates ==
    (~call.concurrent /\ FailedIn("main") # {}) =>
        /\ call.phase = "failed"
        /\ call.error = "HookError"
        /\ FailedIn("main") = {Len(call.status["main"])}
        /\ call.status["post"] = <<>>
        /\ call.results["post"] = <<>>

\* A sequential trigger failed at the second of three main hooks, with a
\* post-hook registered.
C12_Witness ==
    /\ ~call.concurrent
    /\ call.phase = "failed"
    /\ call.status["main"] = <<"done", "failed">>
    /\ Len(HooksOf("main", call.event)) = 3
    /\ HooksOf("post", call.event) # <<>>

\* C13 as stated: a pre-hook or post-hook that raises is isolated whether
\* concurrent is true or false: its exception never leaves trigger, and
\* trigger goes on to return with every hook of every group run.
C13_PrePostIsolated ==
    \A group \in {"pre", "post"} :
        FailedIn(group) # {} =>
            /\ call.error # "HookError"
            /\ call.phase = "returned" =>
                  \A g \in GroupNames : Completed(g)

\* The groups trigger runs after the given one.
GroupsAfter(group) ==
    {Groups[gi] : gi \in (GroupIndex(group) + 1)..Len(Groups)}

\* C13: a pre-hook or post-hook that raises is isolated only when
\* concurrent=true: its exception is kept in its slot, never leaves
\* trigger, the other hooks of its group still run and the following
\* groups still run.  With concurrent=false its exception leaves trigger
\* at once, as in the main group: no later hook of its group and no hook
\* of a following group is invoked.
C13_PrePostByMode ==
    \A group \in {"pre", "post"} :
        \A i \in FailedIn(group) :
            IF call.concurrent
            THEN /\ call.error # "HookError"
                 /\ call.error = NoError =>
                       \A j \in 1..Len(call.status[group]) :
                           call.status[group][j]
                               \in {"new", "running", "done", "failed"}
                 /\ (Completed(group) /\ AllAwaitable(group)) =>
                       /\ call.phase # group
                       /\ ~call.results[group][i].returned
                 /\ call.phase = "returned" =>
                       \A g \in GroupNames : Completed(g)
            ELSE /\ call.phase = "failed"
                 /\ call.error = "HookError"
                 /\ Len(call.status[group]) = i
                 /\ \A g \in GroupsAfter(group) : call.status[g] = <<>>

\* A sequential trigger failed at the first of two pre-hooks, with a main
\* hook registered that was never invoked.
C13_Witness ==
    /\ ~call.concurrent
    /\ call.phase = "failed"
    /\ call.status["pre"] = <<"failed">>
    /\ Len(HooksOf("pre", call.event)) = 2
    /\ HooksOf("main", call.event) # <<>>
    /\ call.status["main"] = <<>>

\* C14: whenever a timeout is given and the main group has not finished
\* when it expires, trigger fails with TimeoutError, every main hook still
\* pending is cancelled and no post-hook runs; the timeout is never applied
\* to the pre or post group.
C14_MainTimeout ==
    /\ call.expired =>
          /\ call.phase = "failed"
          /\ call.error = "TimeoutError"
          /\ \A i \in 1..Len(call.status["main"]) :
                call.status["main"][i] \in {"done", "failed", "cancelled"}
          /\ call.status["post"] = <<>>
    /\ \A group \in {"pre", "post"} :
          \A i \in 1..Len(call.status[group]) :
              call.status[group][i] # "cancelled"

\* ========================================================================
\* Properties of the AgentOrchestrator (checked under SpecOrchestrator)
\* ========================================================================
\* The ids of the workflow that name a registered agent, in workflow
\* order.  (No registration happens while a call is in progress.)
Resolvable ==
    LET InAgents(id) == id \in DOMAIN agents
    IN  SelectSeq(workflows[run.workflow_name], InAgents)

\* The call found its workflow and its global hooks have returned.
AgentsPhase ==
    /\ run.phase # "idle"
    /\ run.workflow_name \in DOMAIN workflows
    /\ run.error.at # "global"

\* What a SimpleAgent with this id returns for the message.
ResultOf(agent_id, message) ==
    AgentMessage(Role(agent_id), Append(message.content, agent_id),
                 message.metadata,
                 Append(message.previous_messages, message))

\* The agent registered under this id raises when executed.
Raises(agent_id) == agents[agent_id].processor = "boom"

\* C15: in sequential mode execute runs on the resolvable agents strictly
\* in workflow order, on the first with the initial message m0 and on each
\* later one with the result of the one before; when no agent fails the
\* call returns [m0, r_1, ..., r_k], r_i the result of the i-th resolvable
\* agent.
C15_SequentialChaining ==
    (AgentsPhase /\ ~run.parallel) =>
        /\ Len(run.executed) <= Len(Resolvable)
        /\ \A i \in 1..Len(run.executed) :
              /\ run.executed[i].agent_id = Resolvable[i]
              /\ run.executed[i].message =
                    IF i = 1 THEN run.initial_message
                    ELSE ResultOf(Resolvable[i - 1],
                                  run.executed[i - 1].message)
        /\ (\A i \in 1..Len(Resolvable) : ~Raises(Resolvable[i])) =>
              run.phase \in {"running", "returned"}
        /\ run.phase = "returned" =>
              /\ Len(run.returned) = Len(Resolvable) + 1
              /\ run.returned[1] = run.initial_message
              /\ \A i \in 1..Len(Resolvable) :
                    run.returned[i + 1] =
                        ResultOf(Resolvable[i], run.returned[i])

\* A sequential call over a workflow of three ids returned four messages.
C15_Witness ==
    /\ ~run.parallel
    /\ run.phase = "returned"
    /\ Len(run.executed) = 3
    /\ Len(run.returned) = 4
    /\ Len(run.returned[4].previous_messages) = 3

\* C16: in sequential mode, when the execute of an agent raises, that
\* exception leaves execute_workflow: no later agent of the workflow is
\* executed and no list is returned.
C16_SequentialAborts ==
    (AgentsPhase /\ ~run.parallel) =>
        \A i \in 1..Len(run.executed) :
            Raises(run.executed[i].agent_id) =>
                /\ run.phase = "failed"
                /\ run.error = AgentErr("ProcessError",
                                        run.executed[i].agent_id, 0)
                /\ i = Len(run.executed)
                /\ run.returned = <<>>

\* A sequential call failed at the second of three resolvable agents.
C16_Witness ==
    /\ ~run.parallel
    /\ run.phase = "failed"
    /\ Len(run.executed) = 2
    /\ Len(Resolvable) = 3
    /\ Raises(run.executed[2].agent_id)

\* The workflow [A, B, C] with the three agents registered, B always
\* raising, A and C not, and no global hook raising; the call is over.
ABCWithBFailing ==
    /\ run.phase \in {"returned", "failed"}
    /\ run.workflow_name \in DOMAIN workflows
    /\ workflows[run.workflow_name] = <<"A", "B", "C">>
    /\ DOMAIN agents = {"A", "B", "C"}
    /\ Raises("B") /\ ~Raises("A") /\ ~Raises("C")
    /\ \A i \in 1..Len(orchestrator_hooks) : orchestrator_hooks[i] # "gboom"

\* C17 as stated: for the workflow [A, B, C] with B always raising, a
\* sequential call yields an output list of exactly 2 entries, the initial
\* message and A's result, and C never runs.
C17_SequentialPartialOutput ==
    (ABCWithBFailing /\ ~run.parallel) =>
        /\ run.phase = "returned"
        /\ run.returned = <<run.initial_message,
                            ResultOf("A", run.initial_message)>>
        /\ \A i \in 1..Len(run.executed) : run.executed[i].agent_id # "C"

\* C17: for the workflow [A, B, C] with B always raising, a sequential
\* call fails with B's exception and returns no output list; A was
\* executed on the initial message, the list held exactly the initial
\* message and A's result when B raised, and C never runs.
C17_SequentialFailsAtB ==
    (ABCWithBFailing /\ ~run.parallel) =>
        /\ run.phase = "failed"
        /\ run.error = AgentErr("ProcessError", "B", 0)
        /\ run.returned = <<>>
        /\ run.messages = <<run.initial_message,
                            ResultOf("A", run.initial_message)>>
        /\ Len(run.executed) = 2
        /\ run.executed[1].agent_id = "A"
        /\ run.executed[1].message = run.initial_message
        /\ run.executed[2].agent_id = "B"

\* The sequential call over [A, B, C] with B raising is over.
C17_Witness ==
    /\ ABCWithBFailing
    /\ ~run.parallel
    /\ Len(run.executed) = 2

\* C18: in parallel mode every resolvable agent is executed with the same
\* initial message m0; an agent that raises neither stops its siblings
\* nor makes execute_workflow fail, and the results of all the agents that
\* succeeded are returned.
C18_ParallelFanOut ==
    (AgentsPhase /\ run.parallel) =>
        /\ run.phase \in {"running", "returned"}
        /\ Len(run.tasks) = Len(Resolvable)
        /\ \A k \in 1..Len(run.tasks) :
              /\ run.tasks[k].agent.agent_id = Resolvable[k]
              /\ run.tasks[k].message = run.initial_message
        /\ \A i \in 1..Len(run.executed) :
              run.executed[i].message = run.initial_message
        /\ run.phase = "returned" =>
              /\ Len(run.executed) = Len(Resolvable)
              /\ \A k \in 1..Len(run.tasks) :
                    /\ TaskOver(run.tasks[k])
                    /\ ~Raises(Resolvable[k]) =>
                          \E n \in 2..Len(run.returned) :
                              run.returned[n] =
                                  ResultOf(Resolvable[k], run.initial_message)
              /\ \A n \in 2..Len(run.returned) :
                    \E k \in 1..Len(run.tasks) :
                        /\ ~Raises(Resolvable[k])
                        /\ run.returned[n] =
                              ResultOf(Resolvable[k], run.initial_message)

\* A parallel call returned although its first agent raised; the second,
\* whose processor is an async def, succeeded.
C18_Witness ==
    /\ run.parallel
    /\ run.phase = "returned"
    /\ Len(run.tasks) = 2
    /\ run.tasks[1].status = "failed"
    /\ run.tasks[2].status = "done"
    /\ run.tasks[2].agent.processor = "aok"

\* C19 as stated: for the workflow [A, B, C] with B always raising, a
\* parallel call attempts the three agents and returns an output list of
\* exactly 2 entries, A's result and C's result, nothing for B.
C19_ParallelTwoEntries ==
    (ABCWithBFailing /\ run.parallel) =>
        /\ run.phase = "returned"
        /\ {run.executed[i].agent_id : i \in 1..Len(run.executed)}
              = {"A", "B", "C"}
        /\ run.returned = <<ResultOf("A", run.initial_message),
                            ResultOf("C", run.initial_message)>>

\* C19: for the workflow [A, B, C] with B always raising, a parallel call
\* attempts the three agents and returns an output list of exactly 3
\* entries: the initial message, then A's result and C's result, nothing
\* for B.
C19_ParallelInitialAndTwo ==
    (ABCWithBFailing /\ run.parallel) =>
        /\ run.phase = "returned"
        /\ Len(run.executed) = 3
        /\ {run.executed[i].agent_id : i \in 1..Len(run.executed)}
              = {"A", "B", "C"}
        /\ run.returned = <<run.initial_message,
                            ResultOf("A", run.initial_message),
                            ResultOf("C", run.initial_message)>>

\* The parallel call over [A, B, C] with B raising has returned.
C19_Witness ==
    /\ ABCWithBFailing
    /\ run.parallel
    /\ run.tasks[2].status = "failed"
    /\ Len(run.returned) = 3

\* The call found its workflow.
WorkflowFound ==
    /\ run.phase # "idle"
    /\ run.workflow_name \in DOMAIN workflows

\* No registered global hook raises.
GlobalHooksReturn ==
    \A i \in 1..Len(orchestrator_hooks) : orchestrator_hooks[i] # "gboom"

C22_UnknownWorkflow ==
    (run.phase # "idle" /\ run.workflow_name \notin DOMAIN workflows) =>
        /\ run.phase = "failed"
        /\ run.error = AgentErr("ValueError", run.workflow_name, 0)
        /\ run.global_calls = <<>>
        /\ run.executed = <<>>
        /\ run.tasks = <<>>
        /\ run.messages = <<>>
        /\ run.returned = <<>>

\* A call with an unknown name failed in a registry that has a workflow,
\* an agent of that workflow and a global hook.
C22_Witness ==
    /\ run.phase = "failed"
    /\ run.workflow_name \notin DOMAIN workflows
    /\ \E name \in DOMAIN workflows :
          \E i \in 1..Len(workflows[name]) :
              workflows[name][i] \in DOMAIN agents
    /\ orchestrator_hooks # <<>>


\* C29: when a global hook raises during execute_workflow, its exception
\* leaves execute_workflow: the global hooks registered after it are not
\* invoked and no agent of the workflow is executed, in sequential and in
\* parallel mode alike.
C29_GlobalHookPropagates ==
    (WorkflowFound /\ ~GlobalHooksReturn) =>
        LET raising == First({i \in 1..Len(orchestrator_hooks) :
                                 orchestrator_hooks[i] = "gboom"})
        IN  /\ run.phase = "failed"
            /\ run.error = AgentErr("HookError", "global", raising)
            /\ Len(run.global_calls) = raising
            /\ run.executed = <<>>
            /\ run.tasks = <<>>
            /\ run.returned = <<>>

\* A parallel call failed at the first of two global hooks, over a
\* workflow with a registered agent.
C29_Witness ==
    /\ WorkflowFound
    /\ run.parallel
    /\ run.phase = "failed"
    /\ orchestrator_hooks = <<"gboom", "g">>
    /\ Len(run.global_calls) = 1
    /\ Len(Resolvable) >= 1


\* C24: every agent transition returns a new message whose history is the
\* history of the input followed by the input, and leaves the input and
\* every earlier message as they were; so in a sequential workflow started
\* from a message with empty history the j-th entry of the list has as its
\* history exactly the entries before it, and in parallel mode every
\* result's history is the initial message's history followed by the
\* initial message.
C24_AppendOnlyHistory ==
    (AgentsPhase /\ run.messages # <<>>) =>
        /\ run.messages[1] = run.initial_message
        /\ \A j \in 2..Len(run.messages) :
              IF run.parallel
              THEN run.messages[j].previous_messages =
                      Append(run.initial_message.previous_messages,
                             run.initial_message)
              ELSE /\ run.messages[j].previous_messages =
                         Append(run.messages[j - 1].previous_messages,
                                run.messages[j - 1])
                   /\ run.messages[j].previous_messages =
                         SubSeq(run.messages, 1, j - 1)
        /\ \A k \in 1..Len(run.tasks) :
              run.tasks[k].status = "done" =>
                  run.tasks[k].result.previous_messages =
                      Append(run.initial_message.previous_messages,
                             run.initial_message)
        /\ run.phase = "returned" => run.returned = run.messages

\* A sequential call over [A, B, A] has returned: the last message's
\* history is the three entries before it.
C24_Witness ==
    /\ WorkflowFound
    /\ ~run.parallel
    /\ run.phase = "returned"
    /\ workflows[run.workflow_name] = <<"A", "B", "A">>
    /\ Len(run.returned) = 4
    /\ run.returned[4].previous_messages = SubSeq(run.returned, 1, 3)

\* The ids of the workflow for which register_agent has been called, in
\* workflow order.
RegisteredIds ==
    LET Known(id) == id \in DOMAIN last_registered
    IN  SelectSeq(workflows[run.workflow_name], Known)

\* C28: execute_workflow decides for each id of the workflow against the
\* agents registered when it is called, in both modes: every executed
\* agent is the agent most recently given to register_agent under its id,
\* whether that was before or after register_workflow; an id with no
\* registered agent is skipped without error and adds no entry to the
\* output; the ids that are registered are executed in workflow order.
C28_ResolvedAtExecution ==
    AgentsPhase =>
        /\ Len(run.executed) <= Len(RegisteredIds)
        /\ \A i \in 1..Len(run.executed) :
              /\ run.executed[i].agent_id = RegisteredIds[i]
              /\ run.executed[i].agent =
                    last_registered[run.executed[i].agent_id]
        /\ run.error # NoAgentError =>
              \E i \in 1..Len(run.executed) :
                  /\ run.error.at = run.executed[i].agent_id
                  /\ run.executed[i].agent.processor = "boom"
        /\ run.phase = "returned" =>
              /\ Len(run.executed) = Len(RegisteredIds)
              /\ Len(run.returned) =
                    1 + Cardinality({i \in 1..Len(RegisteredIds) :
                            last_registered[RegisteredIds[i]].processor
                                # "boom"})

\* A call over [A, B, C] with no agent registered under B has returned the
\* initial message and the results of A and C.
C28_Witness ==
    /\ WorkflowFound
    /\ run.phase = "returned"
    /\ workflows[run.workflow_name] = <<"A", "B", "C">>
    /\ DOMAIN agents = {"A", "C"}
    /\ Len(run.executed) = 2
    /\ Len(run.returned) = 3
    /\ run.executed[2].agent = agents["C"]

\* ========================================================================
\* Properties of AgentHook.execute (checked under SpecAgent)
\* ========================================================================
\* No hook of the list raises.
AllReturn(list) == \A i \in 1..Len(list) : list[i] # "hboom"

\* The place of the processing step in the log of the call; the empty set
\* when the call never reached it.
ProcessAt == {p \in 1..Len(exec.log) : exec.log[p].kind = "process"}

\* C20: execute on message m calls every pre-hook with m before the
\* processing step; when processing returns r, every post-hook is called
\* with (m, r) and r is returned; when processing raises e, every
\* error-hook is called with (m, e) and then e is raised again.  (The
\* hooks themselves are taken to return.)
C20_ExecuteProtocol ==
    exec.done =>
        LET m == exec.message
            r == AgentMessage(agent.role, Append(m.content, agent.agent_id),
                              m.metadata, Append(m.previous_messages, m))
            e == AgentErr("ProcessError", agent.agent_id, 0)
            pre == Len(agent.pre_hooks)
        IN  /\ AllReturn(agent.pre_hooks) => ProcessAt = {pre + 1}
            /\ \A p \in ProcessAt :
                  /\ p = pre + 1
                  /\ \A i \in 1..pre :
                        exec.log[i] = Invoked("pre", i, m, NoMessage,
                                              NoAgentError)
                  /\ (agent.processor # "boom" /\ AllReturn(agent.post_hooks))
                        => /\ Len(exec.log) = p + Len(agent.post_hooks)
                           /\ \A j \in 1..Len(agent.post_hooks) :
                                 exec.log[p + j] =
                                     Invoked("post", j, m, r, NoAgentError)
                           /\ exec.result = r
                           /\ exec.raised = NoAgentError
                  /\ (agent.processor = "boom" /\ AllReturn(agent.error_hooks))
                        => /\ Len(exec.log) = p + Len(agent.error_hooks)
                           /\ \A j \in 1..Len(agent.error_hooks) :
                                 exec.log[p + j] =
                                     Invoked("error", j, m, NoMessage, e)
                           /\ exec.result = NoMessage
                           /\ exec.raised = e

\* An execute whose processing raised, after one pre-hook and before two
\* error-hooks that returned.
C20_Witness ==
    /\ exec.done
    /\ agent.processor = "boom"
    /\ Len(agent.pre_hooks) = 1
    /\ Len(agent.error_hooks) = 2
    /\ AllReturn(agent.error_hooks)
    /\ Len(exec.log) = 4
    /\ exec.raised = AgentErr("ProcessError", agent.agent_id, 0)

\* The places in the log of the call where a hook of this kind was called.
HookCalls(kind) == {p \in 1..Len(exec.log) : exec.log[p].kind = kind}

\* C27: in any execute call the error-hooks are invoked if and only if the
\* processing step itself raised; post-hooks and error-hooks are never
\* both invoked in the same call, so a failure raised by a pre-hook or by
\* a post-hook does not invoke the error-hooks.
C27_ErrorHooksOnlyForProcessing ==
    exec.done =>
        /\ HookCalls("error") # {} =>
              (ProcessAt # {} /\ agent.processor = "boom")
        /\ (ProcessAt # {} /\ agent.processor = "boom"
               /\ agent.error_hooks # <<>>) => HookCalls("error") # {}
        /\ ~(HookCalls("post") # {} /\ HookCalls("error") # {})

=============================================================================
